---- MODULE Spec2Model ----
(***************************************************************************)
(* Model of the classification-and-expansion core of the Apple Music       *)
(* playlist organizers: ExpandedPlaylistOrganizer.expand_playlist with its *)
(* helpers, the classify_track selectors of the researched variants, the   *)
(* organize functions of the Expanded, Advanced, Custom and WebResearch    *)
(* organizers, and create_playlist.                                        *)
(* Strings are TLA+ strings; substring tests and lower-casing are computed *)
(* character by character.                                                 *)
(***************************************************************************)
EXTENDS Integers, Sequences, FiniteSets, TLC

VARIABLES
    mood,            \* expand_playlist: mood argument
    initial_tracks,  \* expand_playlist: current bucket (list of track dicts)
    all_tracks,      \* expand_playlist: the corpus (list of track dicts)
    target_size,     \* expand_playlist: target_size argument
    initial_names,   \* expand_playlist: local set of names
    final_tracks,    \* expand_playlist: local result list
    pc,              \* position inside expand_playlist
    passes,          \* the selection passes the current call has run
    result,          \* value returned by the current call
    prev_result,     \* value returned by the previous call on these inputs
    calls,           \* number of calls started on these inputs
    track,           \* classify_track: the track argument
    classified,      \* the organizers whose classify_track has returned
    moods_of,        \* organizer -> list returned by its classify_track
    library,         \* Music.app: the tracks of library playlist 1
    playlists,       \* Music.app: playlist name -> names of its tracks
    sink_log,        \* the calls of create_playlist, with their results
    o_pc,            \* organize: position
    o_all_tracks,    \* organize: local all_tracks
    o_next,          \* organize: index of the next track to classify
    mood_tracks,     \* organize: mood -> list of classified tracks
    o_mood,          \* organize: index of the mood of the current loop
    expanded_playlists, \* organize: mood -> expanded list of names
    created,         \* organize: local counter of playlists created
    b_org,           \* batch organize: the organizer that runs
    b_pc,            \* batch organize: position
    b_track_count,   \* batch organize: local track_count
    b_i,             \* batch organize: first index of the current batch
    b_tracks,        \* batch organize: the tracks of the current batch
    b_j,             \* batch organize: index of the next track of the batch
    b_mood_tracks,   \* batch organize: mood -> list of track names
    b_k,             \* batch organize: index of the mood of the write loop
    b_created,       \* batch organize: local counter of playlists created
    b_marks,         \* batch organize: mood -> mark printed for its write
    b_writes,        \* batch organize: the sink writes, with their results
    n_fetch,         \* batch organize: library fetch calls completed
    n_classified,    \* batch organize: classify_track calls completed
    s_name,          \* caller of create_playlist: playlist_name argument
    s_track_names,   \* caller of create_playlist: track_names argument
    s_before,        \* the playlists before the first call
    s_first,         \* the playlists after the first call
    s_calls,         \* number of calls made with these arguments
    w_org,           \* the organizer whose organize runs on the library
    w_pc,            \* organize of that organizer: position
    w_all_tracks,    \* WebResearchOrganizer.organize: local all_tracks
    w_next,          \* index of the next track to research and classify
    song_research_cache, \* WebResearchOrganizer: cache key -> research data
    w_moods,         \* the moods assigned to the tracks classified so far
    w_mood_tracks,   \* WebResearchOrganizer.organize: mood -> list of names
    w_mood,          \* index of the mood of the expansion loop
    final_playlists, \* WebResearchOrganizer.organize: mood -> final list
    w_prev_playlists, \* final_playlists of the previous run on the library
    w_runs,          \* number of runs started on the library
    c_literal,       \* WebResearchFinalOrganizer: the literal of __init__
    c_pc,            \* WebResearchFinalOrganizer: position
    c_categories,    \* WebResearchFinalOrganizer: self.mood_categories
    c_track,         \* research_song_mood: the track it was called on
    c_i,             \* research_song_mood: index of the mood of the loop
    c_scores,        \* research_song_mood: local mood_scores
    c_visited        \* the moods research_song_mood has run against

expandVars == <<mood, initial_tracks, all_tracks, target_size, initial_names,
                final_tracks, pc, passes, result, prev_result, calls>>

classifyVars == <<track, classified, moods_of>>

sinkVars == <<library, playlists, sink_log>>

organizeVars == <<o_pc, o_all_tracks, o_next, mood_tracks, o_mood,
                  expanded_playlists, created>>

batchVars == <<b_org, b_pc, b_track_count, b_i, b_tracks, b_j, b_mood_tracks,
               b_k, b_created, b_marks, b_writes, n_fetch, n_classified>>

callVars == <<s_name, s_track_names, s_before, s_first, s_calls>>

researchVars == <<w_org, w_pc, w_all_tracks, w_next, song_research_cache, w_moods,
                  w_mood_tracks, w_mood, final_playlists, w_prev_playlists,
                  w_runs>>

\* the variables of the models that follow those of the organize functions
configVars == <<c_literal, c_pc, c_categories, c_track, c_i, c_scores,
                c_visited>>

laterVars == <<callVars, researchVars, configVars>>

pipelineVars == <<sinkVars, organizeVars, batchVars, laterVars>>

vars == <<expandVars, classifyVars, pipelineVars>>

----------------------------------------------------------------------------
(* Bounds of the model *)

MaxCorpus == 3
MaxBucket == 2
MaxTarget == 3
MaxCalls == 2
MaxPermuted == 3
MaxRotations == 2

----------------------------------------------------------------------------
(* Python built-ins used by the code *)

Min(a, b) == IF a < b THEN a ELSE b

UpperAlphabet == "ABCDEFGHIJKLMNOPQRSTUVWXYZ"
LowerAlphabet == "abcdefghijklmnopqrstuvwxyz"

\* the lower-case letter of every upper-case letter
ToLower ==
    [c \in {SubSeq(UpperAlphabet, i, i) : i \in 1..26} |->
        LET i == CHOOSE j \in 1..26 : SubSeq(UpperAlphabet, j, j) = c
        IN  SubSeq(LowerAlphabet, i, i)]

\* str.lower() on one character
LowerChar(c) == IF c \in DOMAIN ToLower THEN ToLower[c] ELSE c

\* str.lower()
RECURSIVE Lower(_)
Lower(s) ==
    IF Len(s) = 0 THEN ""
    ELSE LowerChar(SubSeq(s, 1, 1)) \o Lower(SubSeq(s, 2, Len(s)))

\* `s in k` where the code has `k in s`
Contains_OperandsSwapped(k, s) ==
    \E i \in 1..(Len(k) - Len(s) + 1) : SubSeq(k, i, i + Len(s) - 1) = s

\* Python's `k in s` on strings
Contains(k, s) ==
    \E i \in 1..(Len(s) - Len(k) + 1) : SubSeq(s, i, i + Len(k) - 1) = k

\* any(k in s for k in keywords)
AnyIn(keywords, s) == \E i \in 1..Len(keywords) : Contains(keywords[i], s)

\* list[:n] for n >= 0
Take(s, n) == SubSeq(s, 1, Min(n, Len(s)))

Range(s) == {s[i] : i \in 1..Len(s)}

NoDup(s) == \A i, j \in 1..Len(s) : s[i] = s[j] => i = j

\* the distinct elements of a sequence, in first-seen order
RECURSIVE Dedup(_)
Dedup(s) ==
    IF s = <<>> THEN <<>>
    ELSE LET d == Dedup(SubSeq(s, 1, Len(s) - 1))
         IN  IF s[Len(s)] \in Range(d) THEN d ELSE Append(d, s[Len(s)])

\* Iteration orders of the set built from the elements of s.  The order of
\* a set of strings is fixed by the hash seed of the process: every
\* permutation is possible.  Sets of more than MaxPermuted elements are
\* iterated in MaxRotations of their rotations only.
SetOrders(s) ==
    LET d == Dedup(s)
        n == Len(d)
    IN  IF n <= MaxPermuted
        THEN {o \in [1..n -> Range(d)] : Range(o) = Range(d)}
        ELSE {[i \in 1..n |-> d[((i + k - 1) % n) + 1]] :
                 k \in 0..(Min(n, MaxRotations) - 1)}

Reverse(s) == [i \in 1..Len(s) |-> s[Len(s) + 1 - i]]

\* TopKeyed with the elements of equal key in reverse order, as an unstable
\* sort may leave them
TopKeyed_TiesReversed(s, k) ==
    LET top == CHOOSE m \in {s[i][k] : i \in 1..Len(s)} :
                   \A i \in 1..Len(s) : s[i][k] <= m
    IN  <<Reverse(SelectSeq(s, LAMBDA x : x[k] = top)),
          SelectSeq(s, LAMBDA x : x[k] # top)>>

\* the elements of s whose key (component k) is the highest, in their order
\* in s, and the others
TopKeyed(s, k) ==
    LET top == CHOOSE m \in {s[i][k] : i \in 1..Len(s)} :
                   \A i \in 1..Len(s) : s[i][k] <= m
    IN  <<SelectSeq(s, LAMBDA x : x[k] = top),
          SelectSeq(s, LAMBDA x : x[k] # top)>>

\* sorted(s, key=lambda x: x[k], reverse=True) and
\* s.sort(reverse=True, key=lambda x: x[k]): highest key first, elements
\* with equal keys keep their order (the sort is stable)
RECURSIVE SortedDesc(_, _)
SortedDesc(s, k) ==
    IF Len(s) = 0 THEN <<>>
    ELSE LET split == TopKeyed(s, k)
         IN  split[1] \o SortedDesc(split[2], k)

\* Counter(items): <<count, element>> pairs in first-seen order
RECURSIVE Counter(_)
Counter(items) ==
    IF items = <<>> THEN <<>>
    ELSE LET rest == Counter(SubSeq(items, 1, Len(items) - 1))
             x == items[Len(items)]
         IN  IF \E i \in 1..Len(rest) : rest[i][2] = x
             THEN [i \in 1..Len(rest) |->
                     IF rest[i][2] = x THEN <<rest[i][1] + 1, x>> ELSE rest[i]]
             ELSE Append(rest, <<1, x>>)

\* Counter.most_common(n)
most_common(counter, n) == Take(SortedDesc(counter, 1), n)

----------------------------------------------------------------------------
(* ExpandedPlaylistOrganizer *)

MoodOrder ==
    <<"Angry/Mad", "Heartbreak", "Workout/Go Time", "Calming", "In Love",
      "While Doing Homework">>

mood_keywords ==
    ("Angry/Mad" :>
        <<"metal", "hardcore", "punk", "screamo", "aggressive", "angry",
          "rage", "mad", "thrash", "death metal", "heavy", "intense", "loud",
          "distorted", "rock", "alternative rock", "grunge", "nu metal",
          "industrial">>) @@
    ("Heartbreak" :>
        <<"sad", "heartbreak", "breakup", "lonely", "crying", "tears",
          "melancholic", "emotional", "depressing", "blue", "hurt", "broken",
          "ballad", "slow", "soul", "r&b", "blues", "country", "folk",
          "acoustic">>) @@
    ("Workout/Go Time" :>
        <<"workout", "gym", "pump", "energy", "motivational",
          "inspirational", "uplifting", "intense", "fast", "beat", "driving",
          "power", "strength", "cardio", "running", "exercise", "fitness",
          "hip hop", "rap", "edm", "electronic", "dance", "house", "techno",
          "trap">>) @@
    ("Calming" :>
        <<"calm", "calming", "peaceful", "relaxing", "zen", "meditation",
          "ambient", "soft", "gentle", "soothing", "quiet", "tranquil",
          "serene", "lullaby", "spa", "yoga", "mindfulness", "new age",
          "nature sounds", "white noise">>) @@
    ("In Love" :>
        <<"romantic", "love", "in love", "sweet", "tender", "intimate",
          "passionate", "devotion", "adoration", "affection", "heart",
          "soulmate", "forever", "together", "couple", "wedding", "pop",
          "r&b", "soul", "jazz", "smooth">>) @@
    ("While Doing Homework" :>
        <<"instrumental", "classical", "study", "focus", "concentration",
          "background", "piano", "orchestral", "ambient", "lo-fi", "chill",
          "acoustic", "jazz", "study music", "homework", "productivity",
          "no lyrics", "post-rock", "cinematic", "soundtrack", "minimal">>)

\* combined = f"{genre} {name} {artist}" of the lower-cased fields
Combined(t) ==
    Lower(t.genre) \o " " \o Lower(t.name) \o " " \o Lower(t.artist)

\* the keyword loop shared by classify_track and find_correlated_tracks
MatchesKeyword(keywords, t) == AnyIn(keywords, Combined(t))

\* Counter([t[field].lower() for t in seed_tracks if t[field]])
SeedCounter(seed_tracks, field) ==
    LET kept == SelectSeq(seed_tracks, LAMBDA t : t[field] # "")
    IN  Counter([i \in 1..Len(kept) |-> Lower(kept[i][field])])

TopArtistCount == 10
TopGenreCount == 5

top_artists(seed_tracks) ==
    {p[2] : p \in Range(most_common(SeedCounter(seed_tracks, "artist"),
                                    TopArtistCount))}

top_genres(seed_tracks) ==
    {p[2] : p \in Range(most_common(SeedCounter(seed_tracks, "genre"),
                                    TopGenreCount))}

\* the score find_similar_tracks gives one t
SimilarScore(t, artists, genres) ==
    LET track_artist == IF t.artist # "" THEN Lower(t.artist) ELSE ""
        track_genre == IF t.genre # "" THEN Lower(t.genre) ELSE ""
    IN  (IF track_artist \in artists THEN 2 ELSE 0)
      + (IF track_genre \in genres THEN 1 ELSE 0)

\* find_similar_tracks without similar.sort(...): candidates in corpus order
find_similar_tracks_NoSort(seed_tracks, tracks, exclude_names, target_count) ==
    IF seed_tracks = <<>> THEN <<>>
    ELSE LET artists == top_artists(seed_tracks)
             genres == top_genres(seed_tracks)
             scored == [i \in 1..Len(tracks) |->
                           <<SimilarScore(tracks[i], artists, genres),
                             tracks[i].name>>]
             similar == SelectSeq(scored, LAMBDA p :
                            p[2] \notin exclude_names /\ p[1] > 0)
             ranked == Take(similar, target_count)
         IN  [i \in 1..Len(ranked) |-> ranked[i][2]]

find_similar_tracks(seed_tracks, tracks, exclude_names, target_count) ==
    IF seed_tracks = <<>> THEN <<>>
    ELSE LET artists == top_artists(seed_tracks)
             genres == top_genres(seed_tracks)
             scored == [i \in 1..Len(tracks) |->
                           <<SimilarScore(tracks[i], artists, genres),
                             tracks[i].name>>]
             similar == SelectSeq(scored, LAMBDA p :
                            p[2] \notin exclude_names /\ p[1] > 0)
             ranked == Take(SortedDesc(similar, 1), target_count)
         IN  [i \in 1..Len(ranked) |-> ranked[i][2]]

\* the loop of find_correlated_tracks from track i on
RECURSIVE CorrelatedScan(_, _, _, _, _, _)
CorrelatedScan(keywords, tracks, i, exclude_names, count, correlated) ==
    IF i > Len(tracks) THEN correlated
    ELSE IF tracks[i].name \in exclude_names
    THEN CorrelatedScan(keywords, tracks, i + 1, exclude_names, count,
                        correlated)
    ELSE IF MatchesKeyword(keywords, tracks[i])
    THEN IF Len(correlated) + 1 >= count
         THEN Append(correlated, tracks[i].name)
         ELSE CorrelatedScan(keywords, tracks, i + 1, exclude_names, count,
                             Append(correlated, tracks[i].name))
    ELSE IF Len(correlated) >= count
         THEN correlated
         ELSE CorrelatedScan(keywords, tracks, i + 1, exclude_names, count,
                             correlated)

\* find_correlated_tracks appending the lower-cased local `name` instead of
\* track['name']
find_correlated_tracks_LowerNames(m, tracks, exclude_names, count) ==
    LET found == Take(CorrelatedScan(mood_keywords[m], tracks, 1,
                                     exclude_names, count, <<>>), count)
    IN  [i \in 1..Len(found) |-> Lower(found[i])]

\* find_correlated_tracks without the test of len(correlated) against count
\* and without the [:count] slice
find_correlated_tracks_NoCount(m, tracks, exclude_names, count) ==
    CorrelatedScan(mood_keywords[m], tracks, 1, exclude_names,
                   Len(tracks) + 1, <<>>)

\* find_correlated_tracks without the test of track['name'] against
\* exclude_names
find_correlated_tracks_NoExclude(m, tracks, exclude_names, count) ==
    Take(CorrelatedScan(mood_keywords[m], tracks, 1, {}, count, <<>>), count)

find_correlated_tracks(m, tracks, exclude_names, count) ==
    Take(CorrelatedScan(mood_keywords[m], tracks, 1, exclude_names, count,
                        <<>>), count)

SimilarCap == 30
CorrelatedCap == 10

NamesOf(tracks) == {tracks[i].name : i \in 1..Len(tracks)}

----------------------------------------------------------------------------
(* Inputs of expand_playlist *)

Track(n, a, g) == [name |-> n, artist |-> a, genre |-> g]

\* a small library: two tracks share a display name, artists and genres
\* differ in case only, one artist is empty
Catalogue ==
    { Track("Rage", "Slayer", "Metal"),
      Track("Rage", "Adele", "pop"),
      Track("Tears", "ADELE", "Pop"),
      Track("Zen", "", "Metal") }

ExpandMoods == {"Angry/Mad", "Calming"}

SeqsUpTo(S, n) == UNION {[1..k -> S] : k \in 0..n}

\* small libraries and buckets, in every order
SmallInputs ==
    /\ initial_tracks \in SeqsUpTo(Catalogue, MaxBucket)
    /\ all_tracks \in SeqsUpTo(Catalogue, MaxCorpus)
    /\ target_size \in 0..MaxTarget

Digits == "0123456789"

RECURSIVE Dec(_)
Dec(i) ==
    IF i < 10 THEN SubSeq(Digits, i + 1, i + 1)
    ELSE Dec(i \div 10) \o SubSeq(Digits, (i % 10) + 1, (i % 10) + 1)

\* a bucket of n tracks with distinct names and artists and seven genres
BulkSeed(n) ==
    [i \in 1..n |-> Track("B" \o Dec(i), "Band" \o Dec(i),
                          "Style" \o Dec(i % 7))]

BulkKinds == {"both", "artist", "genre", "late", "keyword"}

\* the i-th track of a large library; its kind says what it shares with a
\* BulkSeed bucket and with the keywords of ExpandMoods
BulkTrack(i, kind) ==
    CASE kind = "both"    -> Track("T" \o Dec(i), "BAND1", "STYLE1")
      [] kind = "artist"  -> Track("T" \o Dec(i), "Band1", "Metal")
      [] kind = "genre"   -> Track("T" \o Dec(i), "Zen Trio", "style1")
      [] kind = "late"    -> Track("T" \o Dec(i), "Band11", "Style6")
      [] kind = "keyword" -> Track("T" \o Dec(i), "", "Heavy Metal Zen")

BlockSize == 16

\* a library of Len(layout) blocks of BlockSize tracks of one kind each
BulkCorpus(layout) ==
    [i \in 1..(Len(layout) * BlockSize) |->
        BulkTrack(i, layout[((i - 1) \div BlockSize) + 1])]

BulkSeedSizes == {1, TopArtistCount + 2}
BulkTargets == {SimilarCap + 3, SimilarCap + TopArtistCount + 5}
BulkLayouts == BulkKinds \X BulkKinds \X BulkKinds

\* libraries large enough for the caps of the three phases to apply
BulkInputs ==
    /\ \E n \in BulkSeedSizes : initial_tracks = BulkSeed(n)
    /\ \E layout \in BulkLayouts : all_tracks = BulkCorpus(layout)
    /\ target_size \in BulkTargets

\* no organize of AdvancedAppleMusicOrganizer or CustomPlaylistOrganizer
BatchIdle ==
    /\ b_org = "Advanced"
    /\ b_pc = "idle"
    /\ b_track_count = 0
    /\ b_i = 1
    /\ b_tracks = <<>>
    /\ b_j = 1
    /\ b_mood_tracks = <<>>
    /\ b_k = 1
    /\ b_created = 0
    /\ b_marks = <<>>
    /\ b_writes = <<>>
    /\ n_fetch = 0
    /\ n_classified = 0

\* no direct call of create_playlist
CallIdle ==
    /\ s_name = ""
    /\ s_track_names = <<>>
    /\ s_before = <<>>
    /\ s_first = <<>>
    /\ s_calls = 0

\* no organize of WebResearchOrganizer
ResearchIdle ==
    /\ w_org = "Web"
    /\ w_pc = "idle"
    /\ w_all_tracks = <<>>
    /\ w_next = 1
    /\ song_research_cache = <<>>
    /\ w_moods = <<>>
    /\ w_mood_tracks = <<>>
    /\ w_mood = 1
    /\ final_playlists = <<>>
    /\ w_prev_playlists = <<>>
    /\ w_runs = 0

\* no WebResearchFinalOrganizer under construction
ConfigIdle ==
    /\ c_literal = <<>>
    /\ c_pc = "idle"
    /\ c_categories = <<>>
    /\ c_track = [name |-> "", artist |-> "", genre |-> ""]
    /\ c_i = 1
    /\ c_scores = <<>>
    /\ c_visited = {}

LaterIdle == CallIdle /\ ResearchIdle /\ ConfigIdle

\* no organize run and no create_playlist call is under way
PipelineIdle ==
    /\ library = <<>>
    /\ playlists = <<>>
    /\ sink_log = <<>>
    /\ o_pc = "idle"
    /\ o_all_tracks = <<>>
    /\ o_next = 1
    /\ mood_tracks = <<>>
    /\ o_mood = 1
    /\ expanded_playlists = <<>>
    /\ created = 0
    /\ BatchIdle
    /\ LaterIdle

Init ==
    /\ mood \in ExpandMoods
    /\ SmallInputs \/ BulkInputs
    /\ initial_names = {}
    /\ final_tracks = <<>>
    /\ pc = "call"
    /\ passes = <<>>
    /\ result = <<>>
    /\ prev_result = <<>>
    /\ calls = 1
    /\ track = Track("", "", "")
    /\ classified = {}
    /\ moods_of = <<>>
    /\ PipelineIdle

----------------------------------------------------------------------------
(* expand_playlist, one action per phase *)

inputs == <<mood, initial_tracks, all_tracks, target_size>>

\* ExpandBegin whose early return lacks the [:target_size] slice
ExpandBegin_NoSlice ==
    /\ pc = "call"
    /\ initial_names' = NamesOf(initial_tracks)
    /\ \E order \in SetOrders([i \in 1..Len(initial_tracks) |->
                                   initial_tracks[i].name]) :
          /\ final_tracks' = order
          /\ IF Len(order) >= target_size
             THEN /\ result' = order
                  /\ pc' = "done"
             ELSE /\ result' = result
                  /\ pc' = "similar"
    /\ UNCHANGED <<inputs, passes, prev_result, calls, classifyVars,
                   pipelineVars>>

\* ExpandBegin starting final_tracks empty instead of from the bucket names
ExpandBegin_ForgetsBucket ==
    /\ pc = "call"
    /\ initial_names' = NamesOf(initial_tracks)
    /\ final_tracks' = <<>>
    /\ IF 0 >= target_size
       THEN /\ result' = <<>>
            /\ pc' = "done"
       ELSE /\ result' = result
            /\ pc' = "similar"
    /\ UNCHANGED <<inputs, passes, prev_result, calls, classifyVars,
                   pipelineVars>>

\* initial_names = {...}; final_tracks = list(initial_names); early return
ExpandBegin ==
    /\ pc = "call"
    /\ initial_names' = NamesOf(initial_tracks)
    /\ \E order \in SetOrders([i \in 1..Len(initial_tracks) |->
                                   initial_tracks[i].name]) :
          /\ final_tracks' = order
          /\ IF Len(order) >= target_size
             THEN /\ result' = Take(order, target_size)
                  /\ pc' = "done"
             ELSE /\ result' = result
                  /\ pc' = "similar"
    /\ UNCHANGED <<inputs, passes, prev_result, calls, classifyVars,
                   pipelineVars>>

\* "Find similar tracks based on taste (30 tracks)"
ExpandSimilar ==
    /\ pc = "similar"
    /\ LET needed == target_size - Len(final_tracks)
           similar_needed == Min(SimilarCap, needed)
       IN  IF similar_needed > 0 /\ initial_tracks # <<>>
           THEN LET similar == find_similar_tracks(initial_tracks, all_tracks,
                                   initial_names, similar_needed)
                IN  /\ final_tracks' = final_tracks \o similar
                    /\ initial_names' = initial_names \cup Range(similar)
                    /\ passes' = Append(passes, "similar")
           ELSE UNCHANGED <<final_tracks, initial_names, passes>>
    /\ pc' = "correlated"
    /\ UNCHANGED <<inputs, result, prev_result, calls, classifyVars,
                   pipelineVars>>

\* "Find 10 correlated tracks"
ExpandCorrelated ==
    /\ pc = "correlated"
    /\ LET correlated_needed ==
               Min(CorrelatedCap, target_size - Len(final_tracks))
       IN  IF correlated_needed > 0
           THEN /\ final_tracks' = final_tracks \o
                       find_correlated_tracks(mood, all_tracks, initial_names,
                                              correlated_needed)
                /\ passes' = Append(passes, "correlated")
           ELSE UNCHANGED <<final_tracks, passes>>
    /\ pc' = "more"
    /\ UNCHANGED <<inputs, initial_names, result, prev_result, calls,
                 classifyVars, pipelineVars>>

\* ExpandMore without the second similarity pass
ExpandMore_NoSecondPass ==
    /\ pc = "more"
    /\ result' = Take(final_tracks, target_size)
    /\ pc' = "done"
    /\ UNCHANGED <<inputs, initial_names, final_tracks, passes, prev_result,
                   calls, classifyVars, pipelineVars>>

\* ExpandMore repeating the similarity pass until target_size is reached
ExpandMore_Loops ==
    /\ pc = "more"
    /\ LET final == IF Len(final_tracks) < target_size
                    THEN final_tracks \o
                         find_similar_tracks(initial_tracks, all_tracks,
                             NamesOf(initial_tracks) \cup Range(final_tracks),
                             target_size - Len(final_tracks))
                    ELSE final_tracks
       IN  /\ final_tracks' = final
           /\ IF Len(final) < target_size
              THEN /\ result' = result
                   /\ pc' = "more"
              ELSE /\ result' = Take(final, target_size)
                   /\ pc' = "done"
    /\ passes' = IF Len(final_tracks) < target_size
                 THEN Append(passes, "similar") ELSE passes
    /\ UNCHANGED <<inputs, initial_names, prev_result, calls, classifyVars,
                   pipelineVars>>

\* "If still not enough, add more similar tracks", then the return
ExpandMore ==
    /\ pc = "more"
    /\ LET final == IF Len(final_tracks) < target_size
                    THEN final_tracks \o
                         find_similar_tracks(initial_tracks, all_tracks,
                             NamesOf(initial_tracks) \cup Range(final_tracks),
                             target_size - Len(final_tracks))
                    ELSE final_tracks
       IN  /\ final_tracks' = final
           /\ result' = Take(final, target_size)
    /\ passes' = IF Len(final_tracks) < target_size
                 THEN Append(passes, "similar") ELSE passes
    /\ pc' = "done"
    /\ UNCHANGED <<inputs, initial_names, prev_result, calls, classifyVars,
                   pipelineVars>>

\* the caller runs expand_playlist again on the same arguments
ExpandAgain ==
    /\ pc = "done"
    /\ calls < MaxCalls
    /\ calls' = calls + 1
    /\ prev_result' = result
    /\ result' = <<>>
    /\ initial_names' = {}
    /\ final_tracks' = <<>>
    /\ passes' = <<>>
    /\ pc' = "call"
    /\ UNCHANGED <<inputs, classifyVars, pipelineVars>>

Next ==
    \/ ExpandBegin
    \/ ExpandSimilar
    \/ ExpandCorrelated
    \/ ExpandMore
    \/ ExpandAgain

Spec == Init /\ [][Next]_vars

TypeOK ==
    /\ pc \in {"idle", "call", "similar", "correlated", "more", "done"}
    /\ calls \in 1..MaxCalls
    /\ Len(result) <= Len(final_tracks)

----------------------------------------------------------------------------
(* Scoring helpers of the researched organizers *)

\* the number of entries of a keyword list that occur in s
CountIn(keywords, s) ==
    Cardinality({i \in 1..Len(keywords) : Contains(keywords[i], s)})

\* the mood_scores dict: <<mood, score>> items in insertion order, which is
\* the order of mood_categories; only positive scores are stored
ScoreItems(scored) == SelectSeq(scored, LAMBDA item : item[2] > 0)

----------------------------------------------------------------------------
(* ProperlyResearchedOrganizer *)

Properly_mood_categories ==
    ("Angry/Mad" :>
        [genres |->
          <<"metal", "hardcore", "punk", "nu metal", "industrial", "grunge",
            "rock", "alternative metal", "death metal", "thrash metal">>,
         keywords |->
          <<"angry", "rage", "furious", "aggressive", "intense", "heavy",
            "metal", "hardcore", "punk", "screaming", "distorted", "loud",
            "thrash", "mad", "violence", "hate", "revenge", "rebellion">>,
         artists_patterns |->
          <<"metal", "hardcore", "punk", "rage", "kill", "death", "slayer">>]) @@
    ("Heartbreak" :>
        [genres |->
          <<"ballad", "soul", "r&b", "country", "folk", "acoustic", "blues",
            "indie">>,
         keywords |->
          <<"heartbreak", "breakup", "sad", "lonely", "crying", "tears",
            "hurt", "broken", "lost love", "goodbye", "pain", "sorrow",
            "melancholy", "missing", "alone", "empty", "regret">>,
         artists_patterns |->
          <<"ballad", "soul", "country", "folk", "acoustic">>]) @@
    ("Workout/Go Time" :>
        [genres |->
          <<"hip hop", "rap", "edm", "electronic", "dance", "house",
            "techno", "trap", "pop", "rock">>,
         keywords |->
          <<"workout", "gym", "pump", "energy", "motivational", "uplifting",
            "power", "strength", "driving", "intense", "fast", "beat",
            "energetic", "hype", "fire", "go", "push">>,
         artists_patterns |->
          <<"rap", "hip hop", "dj", "edm", "electronic">>]) @@
    ("Calming" :>
        [genres |->
          <<"ambient", "new age", "meditation", "spa", "yoga", "chill",
            "lounge">>,
         keywords |->
          <<"calm", "peaceful", "relaxing", "soothing", "gentle", "soft",
            "quiet", "tranquil", "serene", "zen", "meditation", "ambient",
            "peace", "still">>,
         artists_patterns |->
          <<"ambient", "meditation", "zen", "spa", "yoga">>]) @@
    ("In Love" :>
        [genres |->
          <<"pop", "r&b", "soul", "jazz", "smooth", "ballad", "soft rock">>,
         keywords |->
          <<"love", "romantic", "sweet", "tender", "passionate", "devotion",
            "together", "forever", "soulmate", "heart", "affection",
            "romance", "kiss", "hug", "darling", "baby">>,
         artists_patterns |->
          <<"pop", "r&b", "soul", "jazz">>]) @@
    ("While Doing Homework" :>
        [genres |->
          <<"classical", "instrumental", "lo-fi", "ambient", "jazz",
            "piano", "post-rock", "cinematic", "soundtrack">>,
         keywords |->
          <<"instrumental", "study", "focus", "concentration", "background",
            "piano", "orchestral", "classical", "lo-fi", "chill", "ambient",
            "no lyrics", "music", "soundtrack">>,
         artists_patterns |->
          <<"classical", "piano", "orchestra", "instrumental", "lo-fi">>])

\* "Special patterns in track names"
Properly_special ==
    ("Angry/Mad" :> <<"kill", "die", "hate", "rage", "fury", "war", "fight">>) @@
    ("Heartbreak" :>
        <<"goodbye", "leave", "gone", "lost", "cry", "tears", "hurt">>) @@
    ("Workout/Go Time" :>
        <<"go", "run", "move", "jump", "fire", "hype", "pump">>) @@
    ("Calming" :> <<"peace", "calm", "quiet", "still", "soft", "gentle">>) @@
    ("In Love" :> <<"love", "heart", "kiss", "hug", "together", "forever">>) @@
    ("While Doing Homework" :>
        <<"study", "focus", "piano", "classical", "instrumental">>)

\* the score analyze_song_mood computes for one mood
Properly_score(t, m) ==
    LET genre == Lower(t.genre)
        name == Lower(t.name)
        artist == Lower(t.artist)
        combined == genre \o " " \o name \o " " \o artist
        criteria == Properly_mood_categories[m]
        in_name == {i \in 1..Len(criteria.keywords) :
                       Contains(criteria.keywords[i], name)}
        in_combined == {i \in 1..Len(criteria.keywords) :
                           /\ Contains(criteria.keywords[i], combined)
                           /\ ~Contains(criteria.keywords[i], name)}
    IN  (IF AnyIn(criteria.genres, genre) THEN 15 ELSE 0)
      + 8 * Min(3, Cardinality(in_name))
      + (IF AnyIn(criteria.artists_patterns, artist) THEN 5 ELSE 0)
      + 3 * Min(3, Cardinality(in_combined))
      + (IF AnyIn(Properly_special[m], name) THEN 10 ELSE 0)

Properly_analyze_song_mood(t) ==
    ScoreItems([i \in 1..Len(MoodOrder) |->
                   <<MoodOrder[i], Properly_score(t, MoodOrder[i])>>])

ProperlyFloor == 10
ProperlyCap == 1

\* Properly_admit without the break at the cap
RECURSIVE Properly_admit_NoCap(_, _, _, _)
Properly_admit_NoCap(sorted_moods, i, top_score, moods) ==
    IF i > Len(sorted_moods) THEN moods
    ELSE LET score == sorted_moods[i][2]
             admitted == score >= ProperlyFloor /\ 2 * score >= top_score
         IN  Properly_admit_NoCap(sorted_moods, i + 1, top_score,
                 IF admitted THEN Append(moods, sorted_moods[i][1])
                 ELSE moods)

\* the admission loop of classify_track from position i on; the threshold
\* top_score * 0.5 is compared exactly (scores are whole numbers)
RECURSIVE Properly_admit(_, _, _, _)
Properly_admit(sorted_moods, i, top_score, moods) ==
    IF i > Len(sorted_moods) THEN moods
    ELSE LET score == sorted_moods[i][2]
             admitted == score >= ProperlyFloor /\ 2 * score >= top_score
             n == Len(moods) + (IF admitted THEN 1 ELSE 0)
             moods2 == IF admitted THEN Append(moods, sorted_moods[i][1])
                       ELSE moods
         IN  IF n >= ProperlyCap THEN moods2
             ELSE Properly_admit(sorted_moods, i + 1, top_score, moods2)

Properly_classify_track(t) ==
    LET mood_scores == Properly_analyze_song_mood(t)
    IN  IF mood_scores = <<>> THEN <<>>
        ELSE LET sorted_moods == SortedDesc(mood_scores, 2)
             IN  Properly_admit(sorted_moods, 1, sorted_moods[1][2], <<>>)

----------------------------------------------------------------------------
(* WebResearchedOrganizer *)

WebResearched_mood_categories ==
    ("Angry/Mad" :>
        [genres |->
          <<"metal", "hardcore", "punk", "nu metal", "industrial", "grunge",
            "rock">>,
         keywords |->
          <<"angry", "rage", "furious", "aggressive", "intense", "heavy",
            "metal", "hardcore", "punk", "screaming", "distorted", "loud",
            "thrash", "mad">>,
         themes |->
          <<"anger", "rage", "fury", "aggression", "violence", "rebellion">>]) @@
    ("Heartbreak" :>
        [genres |->
          <<"ballad", "soul", "r&b", "country", "folk", "acoustic", "blues">>,
         keywords |->
          <<"heartbreak", "breakup", "sad", "lonely", "crying", "tears",
            "hurt", "broken", "lost love", "goodbye", "pain", "sorrow",
            "melancholy">>,
         themes |->
          <<"breakup", "heartbreak", "loss", "sadness", "loneliness", "pain">>]) @@
    ("Workout/Go Time" :>
        [genres |->
          <<"hip hop", "rap", "edm", "electronic", "dance", "house",
            "techno", "trap">>,
         keywords |->
          <<"workout", "gym", "pump", "energy", "motivational", "uplifting",
            "power", "strength", "driving", "intense", "fast", "beat",
            "energetic">>,
         themes |->
          <<"motivation", "energy", "power", "strength", "workout",
            "exercise">>]) @@
    ("Calming" :>
        [genres |->
          <<"ambient", "new age", "meditation", "spa", "yoga", "chill">>,
         keywords |->
          <<"calm", "peaceful", "relaxing", "soothing", "gentle", "soft",
            "quiet", "tranquil", "serene", "zen", "meditation", "ambient">>,
         themes |->
          <<"peace", "calm", "relaxation", "meditation", "serenity">>]) @@
    ("In Love" :>
        [genres |->
          <<"pop", "r&b", "soul", "jazz", "smooth", "ballad">>,
         keywords |->
          <<"love", "romantic", "sweet", "tender", "passionate", "devotion",
            "together", "forever", "soulmate", "heart", "affection",
            "romance">>,
         themes |->
          <<"love", "romance", "affection", "devotion", "passion">>]) @@
    ("While Doing Homework" :>
        [genres |->
          <<"classical", "instrumental", "lo-fi", "ambient", "jazz",
            "piano", "post-rock">>,
         keywords |->
          <<"instrumental", "study", "focus", "concentration", "background",
            "piano", "orchestral", "classical", "lo-fi", "chill", "ambient">>,
         themes |->
          <<"study", "focus", "concentration", "background", "instrumental">>])

\* "Artist name patterns"
WebResearched_artist_patterns ==
    ("Angry/Mad" :> <<"metal", "hardcore", "punk", "rage">>) @@
    ("Heartbreak" :> <<"soul", "ballad", "country">>) @@
    ("Workout/Go Time" :> <<"rap", "hip hop", "edm", "dj">>) @@
    ("Calming" :> <<"ambient", "meditation", "zen">>) @@
    ("In Love" :> <<"pop", "r&b", "soul", "jazz">>) @@
    ("While Doing Homework" :>
        <<"classical", "piano", "orchestra", "instrumental">>)

\* the score classify_track computes for one mood
WebResearched_score(t, m) ==
    LET genre_lower == Lower(Lower(t.genre))
        name == Lower(t.name)
        artist == Lower(t.artist)
        criteria == WebResearched_mood_categories[m]
    IN  (IF AnyIn(criteria.genres, genre_lower) THEN 10 ELSE 0)
      + 4 * CountIn(criteria.keywords, name)
      + CountIn(criteria.keywords, artist)
      + 3 * CountIn(criteria.themes, name)
      + CountIn(criteria.themes, artist)
      + (IF AnyIn(WebResearched_artist_patterns[m], artist) THEN 2 ELSE 0)

WebResearchedCap == 2

\* the admission loop of classify_track from position i on; the threshold
\* top_score * 0.6 is compared exactly: for whole scores below 200 the
\* floating-point comparison gives the same answer
RECURSIVE WebResearched_admit(_, _, _, _)
WebResearched_admit(sorted_moods, i, top_score, moods) ==
    IF i > Len(sorted_moods) THEN moods
    ELSE LET score == sorted_moods[i][2]
             admitted == 5 * score >= 3 * top_score
             n == Len(moods) + (IF admitted THEN 1 ELSE 0)
             moods2 == IF admitted THEN Append(moods, sorted_moods[i][1])
                       ELSE moods
         IN  IF n >= WebResearchedCap THEN moods2
             ELSE WebResearched_admit(sorted_moods, i + 1, top_score, moods2)

WebResearched_mood_scores(t) ==
    ScoreItems([i \in 1..Len(MoodOrder) |->
                   <<MoodOrder[i], WebResearched_score(t, MoodOrder[i])>>])

WebResearched_classify_track(t) ==
    LET mood_scores == WebResearched_mood_scores(t)
    IN  IF mood_scores # <<>>
        THEN LET sorted_moods == SortedDesc(mood_scores, 2)
             IN  WebResearched_admit(sorted_moods, 1, sorted_moods[1][2], <<>>)
        ELSE <<>>

----------------------------------------------------------------------------
(* WebResearchFinalOrganizer *)

Final_mood_categories ==
    ("Angry/Mad" :>
        [genres |->
          <<"metal", "hardcore", "punk", "nu metal", "industrial", "grunge",
            "alternative metal", "death metal", "thrash", "screamo">>,
         name_keywords |->
          <<"rage", "angry", "mad", "hate", "kill", "die", "war", "fight",
            "violence", "revenge", "fury", "aggressive", "scream", "break">>,
         artist_keywords |->
          <<"metal", "hardcore", "punk", "slayer", "rage", "kill">>,
         exclude_genres |->
          <<"pop", "ballad", "soft", "acoustic", "jazz", "classical">>]) @@
    ("Heartbreak" :>
        [genres |->
          <<"ballad", "soul", "r&b", "country", "folk", "acoustic", "blues",
            "indie">>,
         name_keywords |->
          <<"heartbreak", "breakup", "goodbye", "tears", "cry", "hurt",
            "pain", "lonely", "alone", "missing", "gone", "lost", "sad",
            "broken", "leave", "away", "regret", "sorry">>,
         artist_keywords |->
          <<"ballad", "soul", "country", "folk">>,
         exclude_genres |->
          <<"metal", "hardcore", "punk", "edm", "dance">>]) @@
    ("Workout/Go Time" :>
        [genres |->
          <<"hip hop", "rap", "edm", "electronic", "dance", "house",
            "techno", "trap", "pop", "rock">>,
         name_keywords |->
          <<"go", "run", "move", "jump", "fire", "hype", "pump", "energy",
            "power", "strength", "workout", "gym", "beat", "bass", "drop">>,
         artist_keywords |->
          <<"rap", "hip hop", "dj", "edm", "electronic">>,
         exclude_genres |->
          <<"ballad", "classical", "ambient", "meditation">>]) @@
    ("Calming" :>
        [genres |->
          <<"ambient", "new age", "meditation", "spa", "yoga", "chill",
            "lounge">>,
         name_keywords |->
          <<"calm", "peace", "quiet", "still", "soft", "gentle", "soothing",
            "tranquil", "serene", "zen", "meditation", "relax">>,
         artist_keywords |->
          <<"ambient", "meditation", "zen", "spa", "yoga">>,
         exclude_genres |->
          <<"metal", "hardcore", "punk", "rap", "hip hop">>]) @@
    ("In Love" :>
        [genres |->
          <<"pop", "r&b", "soul", "jazz", "smooth", "ballad", "soft rock">>,
         name_keywords |->
          <<"love", "heart", "kiss", "hug", "together", "forever",
            "soulmate", "darling", "baby", "sweet", "tender", "romance",
            "devotion">>,
         artist_keywords |->
          <<"pop", "r&b", "soul", "jazz">>,
         exclude_genres |->
          <<"metal", "hardcore", "punk", "death metal">>]) @@
    ("While Doing Homework" :>
        [genres |->
          <<"classical", "instrumental", "lo-fi", "ambient", "jazz",
            "piano", "post-rock", "cinematic", "soundtrack">>,
         name_keywords |->
          <<"study", "focus", "piano", "classical", "instrumental",
            "no lyrics", "background", "concentration">>,
         artist_keywords |->
          <<"classical", "piano", "orchestra", "instrumental", "lo-fi">>,
         exclude_genres |->
          <<"rap", "hip hop", "metal", "hardcore">>])


\* whether research_song_mood skips the mood for this genre
Final_excluded(genre_lower, m) ==
    AnyIn(Final_mood_categories[m].exclude_genres, genre_lower)

\* the score research_song_mood computes for a mood it does not skip, from
\* the criteria of the mood
Final_score_of(criteria, t, m) ==
    LET name_lower == Lower(t.name)
        artist_lower == Lower(t.artist)
        genre_lower == Lower(t.genre)
        pop == Contains("pop", genre_lower)
        ballad == Contains("ballad", genre_lower)
        base ==
            (IF AnyIn(criteria.genres, genre_lower) THEN 20 ELSE 0)
          + 10 * Min(3, CountIn(criteria.name_keywords, name_lower))
          + (IF AnyIn(criteria.artist_keywords, artist_lower) THEN 5 ELSE 0)
          + (IF Contains("adele", artist_lower) /\ m = "Heartbreak"
             THEN 15 ELSE 0)
          + (IF /\ AnyIn(<<"dance", "edm", "electronic">>, genre_lower)
                /\ m = "Workout/Go Time"
             THEN IF AnyIn(<<"go", "run", "move", "fire", "hype", "pump",
                             "energy">>, name_lower)
                  THEN 10 ELSE 5
             ELSE 0)
          + (IF /\ pop
                /\ AnyIn(<<"love", "heart", "together", "forever">>,
                         name_lower)
                /\ m = "In Love"
             THEN 15 ELSE 0)
          + (IF /\ pop
                /\ m = "Workout/Go Time"
                /\ AnyIn(<<"go", "run", "move", "fire", "hype", "pump",
                           "energy", "beat">>, name_lower)
             THEN 8 ELSE 0)
          + (IF pop /\ ballad /\ m = "Heartbreak" THEN 12 ELSE 0)
    IN  IF pop /\ ballad /\ m = "Workout/Go Time" THEN 0 ELSE base

Final_score(t, m) == Final_score_of(Final_mood_categories[m], t, m)

\* research_song_mood without the `continue` of an excluded mood
Final_research_song_mood_NoExclusion(t) ==
    ScoreItems([i \in 1..Len(MoodOrder) |->
                   <<MoodOrder[i], Final_score(t, MoodOrder[i])>>])

Final_research_song_mood(t) ==
    ScoreItems([i \in 1..Len(MoodOrder) |->
                   <<MoodOrder[i],
                     IF Final_excluded(Lower(t.genre), MoodOrder[i]) THEN 0
                     ELSE Final_score(t, MoodOrder[i])>>])

FinalFloor == 20
FinalMargin == 5

\* Final_classify_track without the test of top_score against the floor
Final_classify_track_NoFloor(t) ==
    LET mood_scores == Final_research_song_mood(t)
    IN  IF mood_scores = <<>> THEN <<>>
        ELSE LET sorted_moods == SortedDesc(mood_scores, 2)
                 top_mood == sorted_moods[1][1]
                 top_score == sorted_moods[1][2]
             IN  IF Len(sorted_moods) > 1
                 THEN IF top_score >= sorted_moods[2][2] + FinalMargin
                      THEN <<top_mood>>
                      ELSE <<>>
                 ELSE <<top_mood>>

Final_classify_track(t) ==
    LET mood_scores == Final_research_song_mood(t)
    IN  IF mood_scores = <<>> THEN <<>>
        ELSE LET sorted_moods == SortedDesc(mood_scores, 2)
                 top_mood == sorted_moods[1][1]
                 top_score == sorted_moods[1][2]
             IN  IF top_score >= FinalFloor
                 THEN IF Len(sorted_moods) > 1
                      THEN IF top_score >= sorted_moods[2][2] + FinalMargin
                           THEN <<top_mood>>
                           ELSE <<>>
                      ELSE <<top_mood>>
                 ELSE <<>>

----------------------------------------------------------------------------
(* ResearchedPlaylistOrganizer *)

Researched_mood_categories ==
    ("Angry/Mad" :>
        [keywords |->
          <<"angry", "rage", "furious", "aggressive", "intense", "heavy",
            "metal", "hardcore", "punk", "screaming", "distorted", "loud",
            "thrash">>,
         genres |->
          <<"metal", "hardcore", "punk", "nu metal", "industrial", "grunge">>]) @@
    ("Heartbreak" :>
        [keywords |->
          <<"heartbreak", "breakup", "sad", "lonely", "crying", "tears",
            "hurt", "broken", "lost love", "goodbye", "pain", "sorrow",
            "melancholy">>,
         genres |->
          <<"ballad", "soul", "r&b", "country", "folk", "acoustic">>]) @@
    ("Workout/Go Time" :>
        [keywords |->
          <<"workout", "gym", "pump", "energy", "motivational", "uplifting",
            "power", "strength", "driving", "intense", "fast", "beat">>,
         genres |->
          <<"hip hop", "rap", "edm", "electronic", "dance", "house",
            "techno", "trap">>]) @@
    ("Calming" :>
        [keywords |->
          <<"calm", "peaceful", "relaxing", "soothing", "gentle", "soft",
            "quiet", "tranquil", "serene", "zen", "meditation", "ambient">>,
         genres |->
          <<"ambient", "new age", "meditation", "spa", "yoga">>]) @@
    ("In Love" :>
        [keywords |->
          <<"love", "romantic", "sweet", "tender", "passionate", "devotion",
            "together", "forever", "soulmate", "heart", "affection">>,
         genres |->
          <<"pop", "r&b", "soul", "jazz", "smooth">>]) @@
    ("While Doing Homework" :>
        [keywords |->
          <<"instrumental", "study", "focus", "concentration", "background",
            "piano", "orchestral", "classical", "lo-fi", "chill">>,
         genres |->
          <<"classical", "instrumental", "lo-fi", "ambient", "jazz", "piano">>])

ResearchedGenreMatch == 3
ResearchedKeywordMatch == 2
ResearchedNameKeyword == 1

\* the score classify_track_researched computes for one mood
Researched_score(t, m) ==
    LET genre == Lower(t.genre)
        name == Lower(t.name)
        artist == Lower(t.artist)
        combined == genre \o " " \o name \o " " \o artist
        criteria == Researched_mood_categories[m]
        name_lower == Lower(name)
    IN  (IF AnyIn(criteria.genres, genre) THEN ResearchedGenreMatch ELSE 0)
      + (IF AnyIn(criteria.keywords, combined)
         THEN ResearchedKeywordMatch ELSE 0)
      + ResearchedNameKeyword * CountIn(criteria.keywords, name_lower)

\* the admission loop of classify_track_researched from position i on: it
\* stops at the first mood below top_score * 0.7, compared exactly (for
\* whole scores below 200 the floating-point comparison gives the same
\* answer)
RECURSIVE Researched_admit(_, _, _, _)
Researched_admit(sorted_moods, i, top_score, moods) ==
    IF i > Len(sorted_moods) THEN moods
    ELSE IF 10 * sorted_moods[i][2] >= 7 * top_score
    THEN Researched_admit(sorted_moods, i + 1, top_score,
                          Append(moods, sorted_moods[i][1]))
    ELSE moods

Researched_mood_scores(t) ==
    ScoreItems([i \in 1..Len(MoodOrder) |->
                   <<MoodOrder[i], Researched_score(t, MoodOrder[i])>>])

classify_track_researched(t) ==
    LET mood_scores == Researched_mood_scores(t)
    IN  IF mood_scores # <<>>
        THEN LET sorted_moods == SortedDesc(mood_scores, 2)
             IN  Researched_admit(sorted_moods, 1, sorted_moods[1][2], <<>>)
        ELSE <<>>

----------------------------------------------------------------------------
(* classify_track of each organizer on one track *)

Organizers == {"Properly", "WebResearched", "Final", "Researched"}

TrackNames ==
    {"", "Rage", "Love Story", "Go Run", "Quiet Tears", "Piano Study"}
TrackArtists == {"", "Adele", "Soul Punk", "DJ Zen"}
TrackGenres ==
    {"", "Rock", "Jazz", "Soul Jazz", "Pop Ballad", "Dance", "Metal",
     "Ambient"}

ClassifyInit ==
    /\ track \in {Track(n, a, g) :
                     n \in TrackNames, a \in TrackArtists, g \in TrackGenres}
    /\ classified = {}
    /\ moods_of = [o \in Organizers |-> <<>>]
    /\ mood = "Angry/Mad"
    /\ initial_tracks = <<>>
    /\ all_tracks = <<>>
    /\ target_size = 0
    /\ initial_names = {}
    /\ final_tracks = <<>>
    /\ pc = "idle"
    /\ passes = <<>>
    /\ result = <<>>
    /\ prev_result = <<>>
    /\ calls = 1
    /\ PipelineIdle

Returned(o, moods) ==
    /\ o \notin classified
    /\ classified' = classified \cup {o}
    /\ moods_of' = [moods_of EXCEPT ![o] = moods]
    /\ UNCHANGED <<track, expandVars, pipelineVars>>

ProperlyClassify == Returned("Properly", Properly_classify_track(track))

WebResearchedClassify ==
    Returned("WebResearched", WebResearched_classify_track(track))

FinalClassify == Returned("Final", Final_classify_track(track))

ResearchedClassify ==
    Returned("Researched", classify_track_researched(track))

ClassifyNext ==
    \/ ProperlyClassify
    \/ WebResearchedClassify
    \/ FinalClassify
    \/ ResearchedClassify

ClassifySpec == ClassifyInit /\ [][ClassifyNext]_vars

----------------------------------------------------------------------------
(* The playlist sink: create_playlist and the AppleScript it runs *)

\* str.isdigit()
IsDigit(s) ==
    /\ Len(s) > 0
    /\ \A i \in 1..Len(s) : Contains(SubSeq(s, i, i), Digits)

\* int(s) for a string of digits
RECURSIVE ToInt(_)
ToInt(s) ==
    IF Len(s) = 0 THEN 0
    ELSE 10 * ToInt(SubSeq(s, 1, Len(s) - 1))
         + (CHOOSE d \in 0..9 :
               SubSeq(Digits, d + 1, d + 1) = SubSeq(s, Len(s), Len(s)))

\* What a run of the create script can do.  run_applescript returns the
\* output of osascript, or "" when osascript times out (and is killed) or
\* cannot be started; a script that is killed may have run in part.
CreateOutcomes ==
    { [result |-> "created", effect |-> "replaced"],
      [result |-> "error: cannot make playlist", effect |-> "deleted"],
      [result |-> "", effect |-> "none"],
      [result |-> "", effect |-> "deleted"] }

\* What a run of an add script can do: it runs and reports its count, it
\* cannot be started, or it runs and its output is lost to the timeout
AddOutcomes ==
    { [reported |-> TRUE, applied |-> TRUE],
      [reported |-> FALSE, applied |-> FALSE],
      [reported |-> FALSE, applied |-> TRUE] }

\* the playlists after the create script: "delete existingPlaylist" and
\* "make new playlist with properties {name: ...}"
AfterCreateScript(store, playlist_name, effect) ==
    CASE effect = "replaced" ->
             (playlist_name :> <<>>) @@ store
      [] effect = "deleted" ->
             [n \in DOMAIN store \ {playlist_name} |-> store[n]]
      [] effect = "none" -> store

\* the names of a batch the add script duplicates into the playlist: those
\* of a track of the library, when the playlist exists
FoundInBatch(store, lib, playlist_name, batch) ==
    IF playlist_name \in DOMAIN store
    THEN LET names == {n : n \in NamesOf(lib)}
         IN  SelectSeq(batch, LAMBDA n : n \in names)
    ELSE <<>>

SinkBatchSize == 20

\* the number of add scripts create_playlist runs for track_names
SinkBatches(track_names) ==
    (Len(track_names) + SinkBatchSize - 1) \div SinkBatchSize

\* the loop "Add tracks in batches" from batch b on; yields the playlists
\* and the local counter `added`
RECURSIVE AddBatches(_, _, _, _, _, _, _)
AddBatches(store, lib, playlist_name, track_names, b, outcomes, added) ==
    IF b > SinkBatches(track_names) THEN [store |-> store, added |-> added]
    ELSE LET i == (b - 1) * SinkBatchSize
             batch == SubSeq(track_names, i + 1,
                             Min(i + SinkBatchSize, Len(track_names)))
             found == FoundInBatch(store, lib, playlist_name, batch)
             store2 == IF outcomes[b].applied /\ found # <<>>
                       THEN [store EXCEPT ![playlist_name] = @ \o found]
                       ELSE store
             script_result == IF outcomes[b].reported
                              THEN Dec(Len(found)) ELSE ""
             batch_added == IF IsDigit(script_result)
                            THEN ToInt(script_result) ELSE 0
         IN  AddBatches(store2, lib, playlist_name, track_names, b + 1,
                        outcomes, added + batch_added)

\* create_playlist(playlist_name, track_names) in the environment env, which
\* fixes the outcome of the create script and of every add script: the
\* playlists it leaves, the value it returns, the number of scripts it ran
create_playlist(store, lib, playlist_name, track_names, env) ==
    IF track_names = <<>>
    THEN [store |-> store, ret |-> FALSE, scripts |-> 0]
    ELSE LET store2 ==
                 AfterCreateScript(store, playlist_name, env.create.effect)
         IN  IF Contains("error", Lower(env.create.result))
             THEN [store |-> store2, ret |-> FALSE, scripts |-> 1]
             ELSE LET r == AddBatches(store2, lib, playlist_name,
                                      track_names, 1, env.add, 0)
                  IN  [store |-> r.store, ret |-> r.added > 0,
                       scripts |-> 1 + SinkBatches(track_names)]

\* the environments of one call of create_playlist on track_names
SinkEnvs(track_names) ==
    [create : CreateOutcomes,
     add : [1..SinkBatches(track_names) -> AddOutcomes]]

----------------------------------------------------------------------------
(* ExpandedPlaylistOrganizer.organize *)

\* classify_track of ExpandedPlaylistOrganizer
Expanded_classify_track(t) ==
    SelectSeq(MoodOrder, LAMBDA m : MatchesKeyword(mood_keywords[m], t))

LoadBatchSize == 100

\* get_all_tracks: the tracks of the batches whose script returned a result
get_all_tracks(lib, track_count, batch_ok) ==
    LET loaded == SelectSeq([i \in 1..track_count |-> i],
                     LAMBDA i : batch_ok[((i - 1) \div LoadBatchSize) + 1])
    IN  [k \in 1..Len(loaded) |-> lib[loaded[k]]]

TargetSize == 40

MaxLibrary == 2

\* tracks of the libraries organize runs on: the Catalogue and a track no
\* mood keyword occurs in
OrganizeCatalogue == Catalogue \cup {Track("Untitled", "", "")}

NoMoodTracks == [m \in Range(MoodOrder) |-> <<>>]

OrganizeInit ==
    /\ library \in SeqsUpTo(OrganizeCatalogue, MaxLibrary)
    /\ playlists = <<>>
    /\ sink_log = <<>>
    /\ o_pc = "load"
    /\ o_all_tracks = <<>>
    /\ o_next = 1
    /\ mood_tracks = NoMoodTracks
    /\ o_mood = 1
    /\ expanded_playlists = NoMoodTracks
    /\ created = 0
    /\ BatchIdle
    /\ LaterIdle
    /\ mood = MoodOrder[1]
    /\ initial_tracks = <<>>
    /\ all_tracks = <<>>
    /\ target_size = 0
    /\ initial_names = {}
    /\ final_tracks = <<>>
    /\ pc = "idle"
    /\ passes = <<>>
    /\ result = <<>>
    /\ prev_result = <<>>
    /\ calls = 1
    /\ track = Track("", "", "")
    /\ classified = {}
    /\ moods_of = <<>>

\* all_tracks = self.get_all_tracks(); return when it is empty
OrganizeLoad ==
    /\ o_pc = "load"
    /\ \E track_count \in {0, Len(library)} :
       \E batch_ok \in [1..((Len(library) + LoadBatchSize - 1)
                               \div LoadBatchSize) -> BOOLEAN] :
          LET loaded == get_all_tracks(library, track_count, batch_ok)
          IN  /\ o_all_tracks' = loaded
              /\ o_pc' = IF loaded = <<>> THEN "done" ELSE "classify"
    /\ UNCHANGED <<o_next, mood_tracks, o_mood, expanded_playlists, created,
                   sinkVars, expandVars, classifyVars, batchVars,
                   laterVars>>

\* OrganizeClassify leaving the classification loop after its first track
OrganizeClassify_ExpandsEarly ==
    /\ o_pc = "classify"
    /\ LET t == o_all_tracks[o_next]
           moods == Expanded_classify_track(t)
       IN  mood_tracks' = [m \in DOMAIN mood_tracks |->
                              IF m \in Range(moods)
                              THEN Append(mood_tracks[m], t)
                              ELSE mood_tracks[m]]
    /\ o_next' = o_next + 1
    /\ o_pc' = "expand"
    /\ UNCHANGED <<o_all_tracks, o_mood, expanded_playlists, created,
                   sinkVars, expandVars, classifyVars, batchVars,
                   laterVars>>

\* one iteration of "for track in all_tracks" of the initial classification
OrganizeClassify ==
    /\ o_pc = "classify"
    /\ LET t == o_all_tracks[o_next]
           moods == Expanded_classify_track(t)
       IN  mood_tracks' = [m \in DOMAIN mood_tracks |->
                              IF m \in Range(moods)
                              THEN Append(mood_tracks[m], t)
                              ELSE mood_tracks[m]]
    /\ o_next' = o_next + 1
    /\ o_pc' = IF o_next = Len(o_all_tracks) THEN "expand" ELSE "classify"
    /\ UNCHANGED <<o_all_tracks, o_mood, expanded_playlists, created,
                   sinkVars, expandVars, classifyVars, batchVars,
                   laterVars>>

\* the call self.expand_playlist(mood, initial, all_tracks, target_size=40)
OrganizeExpand ==
    /\ o_pc = "expand"
    /\ mood' = MoodOrder[o_mood]
    /\ initial_tracks' = mood_tracks[MoodOrder[o_mood]]
    /\ all_tracks' = o_all_tracks
    /\ target_size' = TargetSize
    /\ initial_names' = {}
    /\ final_tracks' = <<>>
    /\ passes' = <<>>
    /\ result' = <<>>
    /\ pc' = "call"
    /\ o_pc' = "expanding"
    /\ UNCHANGED <<prev_result, calls, o_all_tracks, o_next, mood_tracks,
                   o_mood, expanded_playlists, created, sinkVars,
                   classifyVars, batchVars,
                   laterVars>>

\* expanded_playlists[mood] = expanded, and the next mood
OrganizeExpanded ==
    /\ o_pc = "expanding"
    /\ pc = "done"
    /\ expanded_playlists' = [expanded_playlists EXCEPT ![mood] = result]
    /\ pc' = "idle"
    /\ IF o_mood = Len(MoodOrder)
       THEN o_mood' = 1 /\ o_pc' = "write"
       ELSE o_mood' = o_mood + 1 /\ o_pc' = "expand"
    /\ UNCHANGED <<inputs, initial_names, final_tracks, passes, result,
                   prev_result, calls, o_all_tracks, o_next, mood_tracks,
                   created, sinkVars, classifyVars, batchVars,
                   laterVars>>

\* OrganizeWrite without the test `if track_list`
OrganizeWrite_NoSkip ==
    /\ o_pc = "write"
    /\ LET track_list == expanded_playlists[MoodOrder[o_mood]]
       IN  \E env \in SinkEnvs(track_list) :
              LET r == create_playlist(playlists, library,
                                       MoodOrder[o_mood], track_list, env)
              IN  /\ playlists' = r.store
                  /\ sink_log' = Append(sink_log,
                                    [name |-> MoodOrder[o_mood],
                                     track_names |-> track_list,
                                     ret |-> r.ret])
                  /\ created' = IF r.ret THEN created + 1 ELSE created
    /\ IF o_mood = Len(MoodOrder)
       THEN o_mood' = o_mood /\ o_pc' = "done"
       ELSE o_mood' = o_mood + 1 /\ o_pc' = "write"
    /\ UNCHANGED <<library, o_all_tracks, o_next, mood_tracks,
                   expanded_playlists, expandVars, classifyVars,
                   batchVars, laterVars>>

\* OrganizeWrite leaving the loop at the first write that fails
OrganizeWrite_StopsOnFailure ==
    /\ o_pc = "write"
    /\ LET track_list == expanded_playlists[MoodOrder[o_mood]]
       IN  IF track_list # <<>>
           THEN \E env \in SinkEnvs(track_list) :
                   LET r == create_playlist(playlists, library,
                                MoodOrder[o_mood], track_list, env)
                   IN  /\ playlists' = r.store
                       /\ sink_log' = Append(sink_log,
                                         [name |-> MoodOrder[o_mood],
                                          track_names |-> track_list,
                                          ret |-> r.ret])
                       /\ created' = IF r.ret THEN created + 1 ELSE created
                       /\ IF o_mood = Len(MoodOrder) \/ ~r.ret
                          THEN o_mood' = o_mood /\ o_pc' = "done"
                          ELSE o_mood' = o_mood + 1 /\ o_pc' = "write"
           ELSE /\ UNCHANGED <<playlists, sink_log, created>>
                /\ IF o_mood = Len(MoodOrder)
                   THEN o_mood' = o_mood /\ o_pc' = "done"
                   ELSE o_mood' = o_mood + 1 /\ o_pc' = "write"
    /\ UNCHANGED <<library, o_all_tracks, o_next, mood_tracks,
                   expanded_playlists, expandVars, classifyVars,
                   batchVars, laterVars>>

\* one iteration of the loop "Create playlists": the playlist of a mood is
\* written when its list is not empty
OrganizeWrite ==
    /\ o_pc = "write"
    /\ LET track_list == expanded_playlists[MoodOrder[o_mood]]
       IN  IF track_list # <<>>
           THEN \E env \in SinkEnvs(track_list) :
                   LET r == create_playlist(playlists, library,
                                MoodOrder[o_mood], track_list, env)
                   IN  /\ playlists' = r.store
                       /\ sink_log' = Append(sink_log,
                                         [name |-> MoodOrder[o_mood],
                                          track_names |-> track_list,
                                          ret |-> r.ret])
                       /\ created' = IF r.ret THEN created + 1 ELSE created
           ELSE UNCHANGED <<playlists, sink_log, created>>
    /\ IF o_mood = Len(MoodOrder)
       THEN o_mood' = o_mood /\ o_pc' = "done"
       ELSE o_mood' = o_mood + 1 /\ o_pc' = "write"
    /\ UNCHANGED <<library, o_all_tracks, o_next, mood_tracks,
                   expanded_playlists, expandVars, classifyVars,
                   batchVars, laterVars>>

OrganizeNext ==
    \/ OrganizeLoad
    \/ OrganizeClassify
    \/ OrganizeExpand
    \/ ExpandBegin
    \/ ExpandSimilar
    \/ ExpandCorrelated
    \/ ExpandMore
    \/ OrganizeExpanded
    \/ OrganizeWrite

OrganizeSpec == OrganizeInit /\ [][OrganizeNext]_vars

----------------------------------------------------------------------------
(* AdvancedAppleMusicOrganizer.organize and CustomPlaylistOrganizer.organize *)

AdvancedMoodOrder ==
    <<"Happy", "Sad", "Energetic", "Chill", "Romantic", "Motivational",
      "Nostalgic", "Focus">>

Advanced_mood_keywords ==
    ("Happy" :>
        <<"pop", "dance", "electronic", "upbeat", "happy", "party",
          "celebration", "joy", "fun">>) @@
    ("Sad" :>
        <<"sad", "ballad", "slow", "melancholic", "emotional", "depressing",
          "blue", "tears">>) @@
    ("Energetic" :>
        <<"rock", "metal", "punk", "energetic", "intense", "aggressive",
          "fast", "hardcore", "thrash">>) @@
    ("Chill" :>
        <<"chill", "ambient", "lounge", "relaxing", "calm", "peaceful",
          "meditation", "zen", "smooth">>) @@
    ("Romantic" :>
        <<"romantic", "love", "soft", "intimate", "ballad", "sweet",
          "tender">>) @@
    ("Motivational" :>
        <<"motivational", "inspirational", "uplifting", "workout", "gym",
          "pump", "energy">>) @@
    ("Nostalgic" :>
        <<"classic", "vintage", "retro", "oldies", "nostalgic",
          "throwback">>) @@
    ("Focus" :>
        <<"instrumental", "classical", "study", "focus", "concentration",
          "background", "piano", "orchestral">>)

\* sorted(mood_tracks.keys()) when every mood is a key
AdvancedSortedMoods ==
    <<"Chill", "Energetic", "Focus", "Happy", "Motivational", "Nostalgic",
      "Romantic", "Sad">>

CustomMoodOrder ==
    <<"Angry", "Heartbreak", "Workout/Go Time", "Calming", "In Love",
      "While Doing Homework">>

Custom_mood_keywords ==
    ("Angry" :>
        <<"metal", "hardcore", "punk", "screamo", "aggressive", "angry",
          "rage", "thrash", "death metal", "heavy", "intense", "loud",
          "distorted">>) @@
    ("Heartbreak" :>
        <<"sad", "heartbreak", "breakup", "lonely", "crying", "tears",
          "melancholic", "emotional", "depressing", "blue", "hurt",
          "broken", "ballad", "slow">>) @@
    ("Workout/Go Time" :>
        <<"workout", "gym", "pump", "energy", "motivational",
          "inspirational", "uplifting", "intense", "fast", "beat",
          "driving", "power", "strength", "cardio", "running", "exercise",
          "fitness">>) @@
    ("Calming" :>
        <<"calm", "calming", "peaceful", "relaxing", "zen", "meditation",
          "ambient", "soft", "gentle", "soothing", "quiet", "tranquil",
          "serene", "lullaby", "spa", "yoga", "mindfulness">>) @@
    ("In Love" :>
        <<"romantic", "love", "in love", "sweet", "tender", "intimate",
          "passionate", "devotion", "adoration", "affection", "heart",
          "soulmate", "forever", "together", "couple", "wedding">>) @@
    ("While Doing Homework" :>
        <<"instrumental", "classical", "study", "focus", "concentration",
          "background", "piano", "orchestral", "ambient", "lo-fi", "chill",
          "acoustic", "jazz", "study music", "homework", "productivity",
          "no lyrics">>)

BatchOrganizers == {"Advanced", "Custom"}

\* classify_track of AdvancedAppleMusicOrganizer
Advanced_classify_track(t) ==
    LET moods == SelectSeq(AdvancedMoodOrder, LAMBDA m :
                     MatchesKeyword(Advanced_mood_keywords[m], t))
    IN  IF moods # <<>> THEN moods ELSE <<"Chill">>

\* classify_track of CustomPlaylistOrganizer
Custom_classify_track(t) ==
    SelectSeq(CustomMoodOrder, LAMBDA m :
        MatchesKeyword(Custom_mood_keywords[m], t))

AdvancedBatchSize == 100
CustomBatchSize == 100
AdvancedSplitSize == 200
AdvancedScriptLimit == 200
CustomSplitSize == 200

FetchBatchSize(org) ==
    IF org = "Advanced" THEN AdvancedBatchSize ELSE CustomBatchSize

SplitSize(org) ==
    IF org = "Advanced" THEN AdvancedSplitSize ELSE CustomSplitSize

BatchMoods(org) ==
    IF org = "Advanced" THEN AdvancedMoodOrder ELSE CustomMoodOrder

\* the moods the loop "Create playlists" runs over: the sorted keys of the
\* defaultdict in AdvancedAppleMusicOrganizer, a fixed list in
\* CustomPlaylistOrganizer
WriteOrder(org, by_mood) ==
    IF org = "Advanced"
    THEN SelectSeq(AdvancedSortedMoods, LAMBDA m : by_mood[m] # <<>>)
    ELSE CustomMoodOrder

\* WriteSlices without the test `if part_tracks`
WriteSlices_NoEmptyTest(org, track_list) ==
    IF Len(track_list) > SplitSize(org)
    THEN <<Take(track_list, SplitSize(org))>> \o
         [part \in 1..(Len(track_list) \div SplitSize(org)) |->
             SubSeq(track_list, part * SplitSize(org) + 1,
                    Min((part + 1) * SplitSize(org), Len(track_list)))]
    ELSE <<track_list>>

\* the lists a mood is written as: track_list, or track_list[:200] and the
\* non-empty track_list[part * 200:(part + 1) * 200] of the parts
WriteSlices(org, track_list) ==
    IF Len(track_list) > SplitSize(org)
    THEN <<Take(track_list, SplitSize(org))>> \o
         SelectSeq([part \in 1..(Len(track_list) \div SplitSize(org)) |->
                       SubSeq(track_list, part * SplitSize(org) + 1,
                              Min((part + 1) * SplitSize(org),
                                  Len(track_list)))],
                   LAMBDA part_tracks : part_tracks # <<>>)
    ELSE <<track_list>>

\* the playlist name of the n-th slice: mood, then f"{mood} Part {part + 1}"
SliceName(m, n) == IF n = 1 THEN m ELSE m \o " Part " \o Dec(n)

\* What a run of the script of create_playlist_script can do
AdvancedOutcomes == {"success", "error", "not_run"}

\* run_applescript(create_playlist_script(playlist_name, track_names)): the
\* playlists it leaves and the string it returns
AdvancedRunScript(store, lib, playlist_name, track_names, outcome) ==
    LET wanted == Range(Take(track_names, AdvancedScriptLimit))
        matching == SelectSeq([i \in 1..Len(lib) |-> lib[i].name],
                              LAMBDA n : n \in wanted)
    IN  CASE outcome = "success" ->
                 [store |-> (playlist_name :> matching) @@ store,
                  result |-> "Success: " \o Dec(Len(matching))
                                 \o " tracks added"]
          [] outcome = "error" ->
                 [store |-> AfterCreateScript(store, playlist_name,
                                              "deleted"),
                  result |-> "Error: cannot make playlist"]
          [] outcome = "not_run" ->
                 [store |-> store, result |-> ""]

\* the sink writes of one mood from slice n on: the playlists they leave
\* and the record of each write
RECURSIVE WriteSlicesFrom(_, _, _, _, _, _, _, _)
WriteSlicesFrom(org, store, lib, m, slices, n, envs, done) ==
    IF n > Len(slices) THEN [store |-> store, writes |-> done]
    ELSE LET r == IF org = "Advanced"
                  THEN LET a == AdvancedRunScript(store, lib,
                                    SliceName(m, n), slices[n], envs[n])
                       IN  [store |-> a.store,
                            ret |-> Contains("Success", a.result)]
                  ELSE create_playlist(store, lib, SliceName(m, n),
                                       slices[n], envs[n])
         IN  WriteSlicesFrom(org, r.store, lib, m, slices, n + 1, envs,
                 Append(done, [mood |-> m, name |-> SliceName(m, n),
                               track_names |-> slices[n], ret |-> r.ret]))

\* environments of create_playlist in which every add script of the call
\* has the same outcome
UniformSinkEnvs(track_names) ==
    {[create |-> c, add |-> [b \in 1..SinkBatches(track_names) |-> a]] :
        c \in CreateOutcomes, a \in AddOutcomes}

\* the environments of the writes of the slices of one mood
WriteEnvs(org, slices) ==
    IF org = "Advanced" THEN [1..Len(slices) -> AdvancedOutcomes]
    ELSE {e \in [1..Len(slices) ->
                    UNION {UniformSinkEnvs(slices[n]) :
                              n \in 1..Len(slices)}] :
             \A n \in 1..Len(slices) : e[n] \in UniformSinkEnvs(slices[n])}

\* the mark organize prints for a mood, and what it adds to created
AdvancedMark(track_list, writes) ==
    IF Len(track_list) > AdvancedSplitSize
    THEN [mark |-> "ok", created |-> 0]
    ELSE IF writes[1].ret THEN [mark |-> "ok", created |-> 1]
         ELSE [mark |-> "failed", created |-> 0]

\* (in the split branch CustomPlaylistOrganizer prints no mark for a main
\* playlist that failed)
CustomMark(track_list, writes) ==
    LET n == Cardinality({i \in 1..Len(writes) : writes[i].ret})
    IN  IF Len(track_list) > CustomSplitSize
        THEN [mark |-> IF writes[1].ret THEN "ok" ELSE "", created |-> n]
        ELSE [mark |-> IF n = 1 THEN "ok" ELSE "failed", created |-> n]

\* the i-th track of a generated library: all tracks of one genre, or of
\* four genres in turn
BatchLayouts == {"same", "mixed"}

BatchGenres == <<"Pop", "Metal", "Ballad", "">>

BatchTrack(i, layout) ==
    IF layout = "same" THEN Track("T" \o Dec(i), "Band", "Ambient")
    ELSE Track("T" \o Dec(i), "Band", BatchGenres[(i % 4) + 1])

\* libraries of one and of two tracks, of more tracks than a fetch batch, of
\* more tracks than a playlist and of the tracks of two full playlists
BatchLibrarySizes ==
    {0, 1, 2, AdvancedBatchSize + 1, AdvancedSplitSize + 1,
     2 * AdvancedSplitSize}

BatchInit ==
    /\ b_org \in BatchOrganizers
    /\ \E n \in BatchLibrarySizes : \E layout \in BatchLayouts :
          library = [i \in 1..n |-> BatchTrack(i, layout)]
    /\ playlists = <<>>
    /\ sink_log = <<>>
    /\ b_pc = "count"
    /\ b_track_count = 0
    /\ b_i = 1
    /\ b_tracks = <<>>
    /\ b_j = 1
    /\ b_mood_tracks = [m \in Range(BatchMoods(b_org)) |-> <<>>]
    /\ b_k = 1
    /\ b_created = 0
    /\ b_marks = [m \in Range(BatchMoods(b_org)) |-> ""]
    /\ b_writes = <<>>
    /\ n_fetch = 0
    /\ n_classified = 0
    /\ LaterIdle
    /\ o_pc = "idle"
    /\ o_all_tracks = <<>>
    /\ o_next = 1
    /\ mood_tracks = <<>>
    /\ o_mood = 1
    /\ expanded_playlists = <<>>
    /\ created = 0
    /\ mood = MoodOrder[1]
    /\ initial_tracks = <<>>
    /\ all_tracks = <<>>
    /\ target_size = 0
    /\ initial_names = {}
    /\ final_tracks = <<>>
    /\ pc = "idle"
    /\ passes = <<>>
    /\ result = <<>>
    /\ prev_result = <<>>
    /\ calls = 1
    /\ track = Track("", "", "")
    /\ classified = {}
    /\ moods_of = <<>>

\* where organize goes when the loop over the batches ends
AfterBatches(org, by_mood) ==
    IF WriteOrder(org, by_mood) = <<>> THEN "done" ELSE "write"

\* track_count = self.get_track_count(); return when it is 0
BatchCount ==
    /\ b_pc = "count"
    /\ \E counted \in {0, Len(library)} :
          /\ b_track_count' = counted
          /\ b_pc' = IF counted = 0 THEN "done" ELSE "fetch"
    /\ n_fetch' = n_fetch + 1
    /\ UNCHANGED <<b_org, b_i, b_tracks, b_j, b_mood_tracks, b_k, b_created,
                   b_marks, b_writes, n_classified, sinkVars, organizeVars,
                   expandVars, classifyVars, laterVars>>

\* tracks = self.get_tracks_batch(i, end_idx): the batch, or nothing when
\* the script gave no result
BatchFetch ==
    /\ b_pc = "fetch"
    /\ LET end_idx == Min(b_i + FetchBatchSize(b_org) - 1, b_track_count)
       IN  \E tracks \in {SubSeq(library, b_i, end_idx), <<>>} :
              /\ b_tracks' = tracks
              /\ b_j' = 1
              /\ IF tracks # <<>>
                 THEN b_pc' = "classify" /\ b_i' = b_i
                 ELSE /\ b_i' = b_i + FetchBatchSize(b_org)
                      /\ b_pc' = IF b_i' > b_track_count
                                 THEN AfterBatches(b_org, b_mood_tracks)
                                 ELSE "fetch"
    /\ n_fetch' = n_fetch + 1
    /\ UNCHANGED <<b_org, b_track_count, b_mood_tracks, b_k, b_created,
                   b_marks, b_writes, n_classified, sinkVars, organizeVars,
                   expandVars, classifyVars, laterVars>>

\* one iteration of "for track in tracks"
BatchClassify ==
    /\ b_pc = "classify"
    /\ LET t == b_tracks[b_j]
           moods == IF b_org = "Advanced" THEN Advanced_classify_track(t)
                    ELSE Custom_classify_track(t)
           by_mood == [m \in DOMAIN b_mood_tracks |->
                          IF m \in Range(moods)
                          THEN Append(b_mood_tracks[m], t.name)
                          ELSE b_mood_tracks[m]]
       IN  /\ b_mood_tracks' = by_mood
           /\ IF b_j < Len(b_tracks)
              THEN b_j' = b_j + 1 /\ b_i' = b_i /\ b_pc' = "classify"
              ELSE /\ b_j' = b_j
                   /\ b_i' = b_i + FetchBatchSize(b_org)
                   /\ b_pc' = IF b_i' > b_track_count
                              THEN AfterBatches(b_org, by_mood)
                              ELSE "fetch"
    /\ n_classified' = n_classified + 1
    /\ UNCHANGED <<b_org, b_track_count, b_tracks, b_k, b_created, b_marks,
                   b_writes, n_fetch, sinkVars, organizeVars, expandVars,
                   classifyVars, laterVars>>

\* one iteration of the loop "Create playlists"
BatchWrite ==
    /\ b_pc = "write"
    /\ LET order == WriteOrder(b_org, b_mood_tracks)
           m == order[b_k]
           track_list == b_mood_tracks[m]
       IN  /\ IF track_list # <<>>
              THEN LET slices == WriteSlices(b_org, track_list)
                   IN  \E envs \in WriteEnvs(b_org, slices) :
                          LET w == WriteSlicesFrom(b_org, playlists, library,
                                       m, slices, 1, envs, <<>>)
                              marked == IF b_org = "Advanced"
                                        THEN AdvancedMark(track_list,
                                                          w.writes)
                                        ELSE CustomMark(track_list, w.writes)
                          IN  /\ playlists' = w.store
                              /\ b_writes' = b_writes \o w.writes
                              /\ b_marks' = [b_marks EXCEPT
                                                ![m] = marked.mark]
                              /\ b_created' = b_created + marked.created
              ELSE /\ UNCHANGED <<playlists, b_writes, b_created>>
                   /\ b_marks' = [b_marks EXCEPT ![m] = "skipped"]
           /\ IF b_k < Len(order)
              THEN b_k' = b_k + 1 /\ b_pc' = "write"
              ELSE b_k' = b_k /\ b_pc' = "done"
    /\ UNCHANGED <<b_org, b_track_count, b_i, b_tracks, b_j, b_mood_tracks,
                   n_fetch, n_classified, library, sink_log, organizeVars,
                   expandVars, classifyVars, laterVars>>

BatchNext ==
    \/ BatchCount
    \/ BatchFetch
    \/ BatchClassify
    \/ BatchWrite

BatchSpec == BatchInit /\ [][BatchNext]_vars

----------------------------------------------------------------------------
(* Direct calls of create_playlist *)

MaxSinkCalls == 2

\* a list of one name more than an add script takes; only its last name is
\* the name of a track of the Catalogue
ManyNames ==
    [i \in 1..(SinkBatchSize + 1) |->
        IF i = SinkBatchSize + 1 THEN "Zen" ELSE "N" \o Dec(i)]

SinkLists ==
    { <<>>, <<"Zen">>, <<"Zen", "Rage">>, <<"Zen", "Gone">>, ManyNames }

CallInit ==
    /\ library \in SeqsUpTo(Catalogue, MaxLibrary)
    /\ s_name = "Calming"
    /\ s_track_names \in SinkLists
    /\ playlists \in { <<>>, ("Calming" :> <<"Old">>) }
    /\ s_before = playlists
    /\ s_first = <<>>
    /\ s_calls = 0
    /\ sink_log = <<>>
    /\ BatchIdle
    /\ ResearchIdle
    /\ ConfigIdle
    /\ o_pc = "idle"
    /\ o_all_tracks = <<>>
    /\ o_next = 1
    /\ mood_tracks = <<>>
    /\ o_mood = 1
    /\ expanded_playlists = <<>>
    /\ created = 0
    /\ mood = MoodOrder[1]
    /\ initial_tracks = <<>>
    /\ all_tracks = <<>>
    /\ target_size = 0
    /\ initial_names = {}
    /\ final_tracks = <<>>
    /\ pc = "idle"
    /\ passes = <<>>
    /\ result = <<>>
    /\ prev_result = <<>>
    /\ calls = 1
    /\ track = Track("", "", "")
    /\ classified = {}
    /\ moods_of = <<>>

\* self.create_playlist(playlist_name, track_names)
CallCreatePlaylist ==
    /\ s_calls < MaxSinkCalls
    /\ \E env \in SinkEnvs(s_track_names) :
          LET r == create_playlist(playlists, library, s_name,
                                   s_track_names, env)
          IN  /\ playlists' = r.store
              /\ sink_log' = Append(sink_log,
                                 [name |-> s_name,
                                  track_names |-> s_track_names,
                                  ret |-> r.ret])
              /\ s_first' = IF s_calls = 0 THEN r.store ELSE s_first
    /\ s_calls' = s_calls + 1
    /\ UNCHANGED <<library, s_name, s_track_names, s_before, organizeVars,
                   batchVars, expandVars, classifyVars, researchVars,
                   configVars>>

CallNext == CallCreatePlaylist

CallSpec == CallInit /\ [][CallNext]_vars

----------------------------------------------------------------------------
(* WebResearchOrganizer *)

WebResearch_mood_categories ==
    ("Angry/Mad" :>
        [keywords |->
          <<"angry", "rage", "furious", "mad", "aggressive", "intense",
            "heavy", "metal", "punk", "hardcore", "screaming", "yelling">>,
         themes |->
          <<"anger", "rage", "frustration", "aggression", "rebellion",
            "conflict", "hate", "violence">>,
         genres |->
          <<"metal", "hardcore", "punk", "rock", "alternative rock",
            "grunge", "nu metal", "industrial">>]) @@
    ("Heartbreak" :>
        [keywords |->
          <<"sad", "heartbreak", "breakup", "lonely", "crying", "tears",
            "hurt", "broken", "loss", "goodbye", "pain">>,
         themes |->
          <<"heartbreak", "breakup", "loss", "sadness", "loneliness",
            "emotional pain", "rejection", "betrayal">>,
         genres |->
          <<"ballad", "soul", "r&b", "country", "blues", "folk", "acoustic",
            "indie">>]) @@
    ("Workout/Go Time" :>
        [keywords |->
          <<"energy", "pump", "motivational", "uplifting", "intense",
            "fast", "driving", "power", "strength", "victory">>,
         themes |->
          <<"motivation", "energy", "power", "strength", "determination",
            "victory", "success", "winning">>,
         genres |->
          <<"hip hop", "rap", "edm", "electronic", "dance", "house",
            "techno", "trap", "pop">>]) @@
    ("Calming" :>
        [keywords |->
          <<"calm", "peaceful", "relaxing", "soothing", "gentle", "soft",
            "tranquil", "serene", "quiet", "zen">>,
         themes |->
          <<"peace", "calm", "relaxation", "tranquility", "serenity",
            "meditation", "mindfulness">>,
         genres |->
          <<"ambient", "new age", "classical", "jazz", "acoustic",
            "instrumental", "lounge">>]) @@
    ("In Love" :>
        [keywords |->
          <<"love", "romantic", "sweet", "tender", "passionate", "devotion",
            "affection", "heart", "together", "forever">>,
         themes |->
          <<"love", "romance", "affection", "devotion", "passion",
            "togetherness", "soulmate", "wedding">>,
         genres |->
          <<"pop", "r&b", "soul", "jazz", "smooth", "ballad", "soft rock">>]) @@
    ("While Doing Homework" :>
        [keywords |->
          <<"instrumental", "focus", "concentration", "study", "background",
            "ambient", "lo-fi", "no lyrics">>,
         themes |->
          <<"focus", "concentration", "study", "productivity",
            "background music", "instrumental">>,
         genres |->
          <<"instrumental", "classical", "ambient", "lo-fi", "jazz",
            "post-rock", "cinematic", "soundtrack">>])

\* the position of the first space of s, Len(s) + 1 when it has none
FirstSpace(s) ==
    CHOOSE i \in 1..(Len(s) + 1) :
        /\ i = Len(s) + 1 \/ SubSeq(s, i, i) = " "
        /\ \A j \in 1..(i - 1) : SubSeq(s, j, j) # " "

\* str.split() on a string whose only white space is the space character
RECURSIVE Words(_)
Words(s) ==
    IF Len(s) = 0 THEN <<>>
    ELSE LET n == FirstSpace(s)
             rest == Words(SubSeq(s, n + 1, Len(s)))
         IN  IF n = 1 THEN rest ELSE <<SubSeq(s, 1, n - 1)>> \o rest

\* the number of pairs (word, entry) with word == entry: one "word in list"
\* test per word, and a list without repeated entries
CountWords(words, list) ==
    Cardinality({i \in 1..Len(words) : words[i] \in Range(list)})

\* web_search_song: the research data it returns and the cache it leaves
web_search_song(cache, song_name, artist) ==
    LET cache_key == song_name \o "|" \o artist
        research_data ==
            [mood_keywords |-> <<>>, themes |-> <<>>, genre_hints |-> <<>>,
             lyrics_analysis |-> Lower(song_name \o " " \o artist)]
    IN  IF cache_key \in DOMAIN cache
        THEN [data |-> cache[cache_key], cache |-> cache]
        ELSE [data |-> research_data,
              cache |-> cache @@ (cache_key :> research_data)]

WebKeywordInName == 5
WebKeywordInArtist == 2
WebKeywordInText == 1
WebThemeInName == 8
WebThemeInText == 3
WebGenreMatch == 4
WebKeywordInResearch == 3
WebThemeInResearch == 5
WebWordIsKeyword == 4
WebWordIsTheme == 6

\* "Genre matching" of classify_song_with_research: what the loop over
\* config['genres'] adds to the score of mood m
WebResearch_genre_score(t, m) ==
    LET genre == Lower(t.genre)
    IN  IF genre # ""
        THEN WebGenreMatch * CountIn(WebResearch_mood_categories[m].genres,
                                     genre)
        ELSE 0

\* the score classify_song_with_research computes for one mood
WebResearch_score(t, research_data, m) ==
    LET song_name == Lower(t.name)
        artist == Lower(t.artist)
        genre == Lower(t.genre)
        text == Lower(genre \o " " \o song_name \o " " \o artist)
        combined_text ==
            IF research_data.lyrics_analysis # ""
            THEN text \o " " \o Lower(research_data.lyrics_analysis)
            ELSE text
        config == WebResearch_mood_categories[m]
        research_text == Lower(research_data.lyrics_analysis)
        title_words == Words(song_name)
    IN  WebKeywordInName * CountIn(config.keywords, song_name)
      + WebKeywordInArtist * CountIn(config.keywords, artist)
      + WebKeywordInText * CountIn(config.keywords, combined_text)
      + WebThemeInName * CountIn(config.themes, song_name)
      + WebThemeInText * CountIn(config.themes, combined_text)
      + WebResearch_genre_score(t, m)
      + (IF research_text # ""
         THEN WebKeywordInResearch * CountIn(config.keywords, research_text)
            + WebThemeInResearch * CountIn(config.themes, research_text)
         ELSE 0)
      + WebWordIsKeyword * CountWords(title_words, config.keywords)
      + WebWordIsTheme * CountWords(title_words, config.themes)

WebResearchCap == 1

\* the admission loop of classify_song_with_research from position i on;
\* the threshold top_score * 0.7 is compared exactly: for whole scores
\* below 200 the floating-point comparison gives the same answer
RECURSIVE WebResearch_admit(_, _, _, _)
WebResearch_admit(sorted_moods, i, top_score, moods) ==
    IF i > Len(sorted_moods) THEN moods
    ELSE LET score == sorted_moods[i][2]
             moods2 == IF 10 * score >= 7 * top_score
                       THEN Append(moods, sorted_moods[i][1])
                       ELSE moods
         IN  IF Len(moods2) >= WebResearchCap THEN moods2
             ELSE WebResearch_admit(sorted_moods, i + 1, top_score, moods2)

WebResearch_mood_scores(t, research_data) ==
    ScoreItems([i \in 1..Len(MoodOrder) |->
                   <<MoodOrder[i],
                     WebResearch_score(t, research_data, MoodOrder[i])>>])

classify_song_with_research(t, research_data) ==
    LET mood_scores == WebResearch_mood_scores(t, research_data)
    IN  IF mood_scores = <<>> THEN <<"Calming">>
        ELSE LET sorted_moods == SortedDesc(mood_scores, 2)
                 moods == WebResearch_admit(sorted_moods, 1,
                                            sorted_moods[1][2], <<>>)
             IN  IF moods # <<>> THEN moods ELSE <<"Calming">>

WebLoadBatchSize == 50

\* get_all_tracks of WebResearchOrganizer: the tracks of the batches whose
\* script answered, in library order; track_count is the answer of the
\* count script (0 when it fails).  No field of a track of the model holds
\* "," or "|||", the separators of the answer of a batch script.
WebResearch_get_all_tracks(lib, track_count, batch_ok) ==
    LET loaded == SelectSeq([i \in 1..track_count |-> i],
                     LAMBDA i : batch_ok[((i - 1) \div WebLoadBatchSize) + 1])
    IN  [k \in 1..Len(loaded) |-> lib[loaded[k]]]

WebTargetSize == 40
WebTopArtists == 5
WebTopGenres == 3

\* the elements of Counter(...).most_common(n), as a set
TopSet(items, n) ==
    LET top == most_common(Counter(items), n)
    IN  {top[i][2] : i \in 1..Len(top)}

\* "Find similar tracks": the scan of all_tracks from position i on, with
\* the current list and the number of names added so far
RECURSIVE WebSimilarScan(_, _, _, _, _, _, _)
WebSimilarScan(corpus, i, tracks, added, needed, w_top_artists, w_top_genres) ==
    IF i > Len(corpus) THEN tracks
    ELSE LET t == corpus[i]
         IN  IF t.name \in Range(tracks)
             THEN WebSimilarScan(corpus, i + 1, tracks, added, needed,
                                 w_top_artists, w_top_genres)
             ELSE IF t.artist \in w_top_artists \/ t.genre \in w_top_genres
             THEN IF added + 1 >= needed THEN Append(tracks, t.name)
                  ELSE WebSimilarScan(corpus, i + 1, Append(tracks, t.name),
                                      added + 1, needed, w_top_artists,
                                      w_top_genres)
             ELSE WebSimilarScan(corpus, i + 1, tracks, added, needed,
                                 w_top_artists, w_top_genres)

\* "add based on genre similarity": the scan of all_tracks from position i
RECURSIVE WebGenreScan(_, _, _, _)
WebGenreScan(corpus, i, tracks, w_top_genres) ==
    IF i > Len(corpus) THEN tracks
    ELSE LET t == corpus[i]
         IN  IF t.name \in Range(tracks)
             THEN WebGenreScan(corpus, i + 1, tracks, w_top_genres)
             ELSE IF t.genre \in w_top_genres
             THEN IF Len(tracks) + 1 >= WebTargetSize
                  THEN Append(tracks, t.name)
                  ELSE WebGenreScan(corpus, i + 1, Append(tracks, t.name),
                                    w_top_genres)
             ELSE WebGenreScan(corpus, i + 1, tracks, w_top_genres)

\* one iteration of the loop "Ensuring each playlist has 40+ tracks" of
\* organize; tracks is list(set(mood_tracks.get(mood, []))) in the
\* iteration order of that set
WebResearch_expand(corpus, tracks) ==
    IF Len(tracks) < WebTargetSize
    THEN LET existing_track_objs ==
                 SelectSeq(corpus, LAMBDA t : t.name \in Range(tracks))
             artists == [i \in 1..Len(existing_track_objs) |->
                            existing_track_objs[i].artist]
             genres == [i \in 1..Len(existing_track_objs) |->
                           existing_track_objs[i].genre]
             w_top_artists ==
                 TopSet(SelectSeq(artists, LAMBDA a : a # ""), WebTopArtists)
             w_top_genres ==
                 TopSet(SelectSeq(genres, LAMBDA g : g # ""), WebTopGenres)
             similar == WebSimilarScan(corpus, 1, tracks, 0,
                                       WebTargetSize - Len(tracks),
                                       w_top_artists, w_top_genres)
             filled == IF Len(similar) < WebTargetSize
                       THEN WebGenreScan(corpus, 1, similar, w_top_genres)
                       ELSE similar
         IN  Take(filled, WebTargetSize)
    ELSE Take(tracks, WebTargetSize)

----------------------------------------------------------------------------
(* ResearchBasedOrganizer *)

ResearchBased_mood_categories ==
    ("Angry/Mad" :>
        [keywords |->
          <<"angry", "rage", "furious", "mad", "aggressive", "intense",
            "heavy", "metal", "punk", "hardcore">>,
         themes |->
          <<"anger", "rage", "frustration", "aggression", "rebellion",
            "conflict">>]) @@
    ("Heartbreak" :>
        [keywords |->
          <<"sad", "heartbreak", "breakup", "lonely", "crying", "tears",
            "hurt", "broken", "loss">>,
         themes |->
          <<"heartbreak", "breakup", "loss", "sadness", "loneliness",
            "emotional pain">>]) @@
    ("Workout/Go Time" :>
        [keywords |->
          <<"energy", "pump", "motivational", "uplifting", "intense",
            "fast", "driving", "power">>,
         themes |->
          <<"motivation", "energy", "power", "strength", "determination",
            "victory">>]) @@
    ("Calming" :>
        [keywords |->
          <<"calm", "peaceful", "relaxing", "soothing", "gentle", "soft",
            "tranquil", "serene">>,
         themes |->
          <<"peace", "calm", "relaxation", "tranquility", "serenity",
            "meditation">>]) @@
    ("In Love" :>
        [keywords |->
          <<"love", "romantic", "sweet", "tender", "passionate", "devotion",
            "affection", "heart">>,
         themes |->
          <<"love", "romance", "affection", "devotion", "passion",
            "togetherness">>]) @@
    ("While Doing Homework" :>
        [keywords |->
          <<"instrumental", "focus", "concentration", "study", "background",
            "ambient", "lo-fi">>,
         themes |->
          <<"focus", "concentration", "study", "productivity",
            "background music">>])

\* research_song: the research result is the same for every song, and
\* classify_song_by_research does not read it; the cache it leaves
research_song(cache, song_name, artist) ==
    LET cache_key == song_name \o "|" \o artist
        research_result ==
            [mood |-> "None", themes |-> <<>>, lyrics_analysis |-> "",
             genre_hints |-> <<>>]
    IN  IF cache_key \in DOMAIN cache
        THEN [data |-> cache[cache_key], cache |-> cache]
        ELSE [data |-> research_result,
              cache |-> cache @@ (cache_key :> research_result)]

\* the genre terms of the "Genre-based classification" of each mood
ResearchBased_genre_terms ==
    ("Angry/Mad" :> <<"metal", "punk", "hardcore", "rock", "alternative">>) @@
    ("Heartbreak" :> <<"ballad", "soul", "r&b", "country", "blues">>) @@
    ("Workout/Go Time" :> <<"hip hop", "rap", "edm", "electronic", "dance">>) @@
    ("Calming" :> <<"ambient", "new age", "classical", "jazz">>) @@
    ("In Love" :> <<"pop", "r&b", "soul", "jazz", "smooth">>) @@
    ("While Doing Homework" :>
        <<"instrumental", "classical", "ambient", "lo-fi">>)

ResearchBasedKeyword == 2
ResearchBasedTheme == 3
ResearchBasedWordIsKeyword == 1
ResearchBasedWordIsTheme == 2
ResearchBasedGenre == 3

\* the score classify_song_by_research computes for one mood
ResearchBased_score(t, m) ==
    LET song_name == Lower(t.name)
        artist == Lower(t.artist)
        genre == Lower(t.genre)
        combined_text == Lower(genre \o " " \o song_name \o " " \o artist)
        config == ResearchBased_mood_categories[m]
        title_words == Words(song_name)
    IN  ResearchBasedKeyword * CountIn(config.keywords, combined_text)
      + ResearchBasedTheme * CountIn(config.themes, combined_text)
      + ResearchBasedWordIsKeyword * CountWords(title_words, config.keywords)
      + ResearchBasedWordIsTheme * CountWords(title_words, config.themes)
      + (IF AnyIn(ResearchBased_genre_terms[m], genre)
         THEN ResearchBasedGenre ELSE 0)

ResearchBasedCap == 2

\* the admission loop of classify_song_by_research from position i on;
\* the threshold top_score * 0.7 is compared exactly: for whole scores
\* below 200 the floating-point comparison gives the same answer
RECURSIVE ResearchBased_admit(_, _, _, _)
ResearchBased_admit(sorted_moods, i, top_score, moods) ==
    IF i > Len(sorted_moods) THEN moods
    ELSE LET score == sorted_moods[i][2]
             moods2 == IF 10 * score >= 7 * top_score
                       THEN Append(moods, sorted_moods[i][1])
                       ELSE moods
         IN  IF Len(moods2) >= ResearchBasedCap THEN moods2
             ELSE ResearchBased_admit(sorted_moods, i + 1, top_score, moods2)

ResearchBased_mood_scores(t) ==
    ScoreItems([i \in 1..Len(MoodOrder) |->
                   <<MoodOrder[i], ResearchBased_score(t, MoodOrder[i])>>])

classify_song_by_research(t) ==
    LET mood_scores == ResearchBased_mood_scores(t)
    IN  IF mood_scores = <<>> THEN <<"Calming">>
        ELSE LET sorted_moods == SortedDesc(mood_scores, 2)
                 moods == ResearchBased_admit(sorted_moods, 1,
                                              sorted_moods[1][2], <<>>)
             IN  IF moods # <<>> THEN moods ELSE <<"Calming">>

ResearchBasedTargetSize == 40
ResearchBasedTopGenres == 3

\* artist_genre_map: the genres of the tracks of all_tracks whose name is
\* in the bucket, by artist; empty artists and genres are entered too
artist_genre_map(corpus, tracks) ==
    LET existing == {corpus[i] : i \in {j \in 1..Len(corpus) :
                                          corpus[j].name \in Range(tracks)}}
    IN  [a \in {t.artist : t \in existing} |->
            {t.genre : t \in {u \in existing : u.artist = a}}]

\* "Add tracks from same artists/genres": the scan of all_tracks from
\* position i on
RECURSIVE ResearchBasedArtistScan(_, _, _, _, _, _)
ResearchBasedArtistScan(corpus, i, tracks, added, needed, map) ==
    IF i > Len(corpus) THEN tracks
    ELSE LET t == corpus[i]
         IN  IF t.name \notin Range(tracks)
                /\ t.artist \in DOMAIN map
                /\ (t.genre \in map[t.artist] \/ map[t.artist] = {})
             THEN IF added + 1 >= needed THEN Append(tracks, t.name)
                  ELSE ResearchBasedArtistScan(corpus, i + 1,
                           Append(tracks, t.name), added + 1, needed, map)
             ELSE ResearchBasedArtistScan(corpus, i + 1, tracks, added,
                                          needed, map)

\* "If still not enough, add by genre": the scan of all_tracks from
\* position i on
RECURSIVE ResearchBasedGenreScan(_, _, _, _)
ResearchBasedGenreScan(corpus, i, tracks, r_top_genres) ==
    IF i > Len(corpus) THEN tracks
    ELSE LET t == corpus[i]
         IN  IF t.name \notin Range(tracks) /\ t.genre \in r_top_genres
             THEN IF Len(tracks) + 1 >= ResearchBasedTargetSize
                  THEN Append(tracks, t.name)
                  ELSE ResearchBasedGenreScan(corpus, i + 1,
                           Append(tracks, t.name), r_top_genres)
             ELSE ResearchBasedGenreScan(corpus, i + 1, tracks, r_top_genres)

\* the list "tracks" of one iteration of the loop "Expanding playlists to
\* 40+ tracks" of organize after its two scans; tracks is
\* mood_tracks.get(mood, [])
ResearchBased_expand(corpus, tracks) ==
    IF Len(tracks) < ResearchBasedTargetSize
    THEN LET by_artist ==
                 ResearchBasedArtistScan(corpus, 1, tracks, 0,
                     ResearchBasedTargetSize - Len(tracks),
                     artist_genre_map(corpus, tracks))
             in_bucket == SelectSeq(corpus,
                              LAMBDA t : t.name \in Range(by_artist))
             r_top_genres ==
                 TopSet([i \in 1..Len(in_bucket) |-> in_bucket[i].genre],
                        ResearchBasedTopGenres)
         IN  IF Len(by_artist) < ResearchBasedTargetSize
             THEN ResearchBasedGenreScan(corpus, 1, by_artist, r_top_genres)
             ELSE by_artist
    ELSE tracks

----------------------------------------------------------------------------
(* SmartResearchOrganizer *)

Smart_mood_categories ==
    ("Angry/Mad" :>
        [title_keywords |->
          <<"angry", "rage", "furious", "mad", "hate", "kill", "destroy",
            "fight", "war", "revenge", "scream", "yell", "fuck", "damn">>,
         artist_keywords |->
          <<"metal", "hardcore", "punk", "death", "slayer", "metallica",
            "disturbed">>,
         genre_keywords |->
          <<"metal", "hardcore", "punk", "rock", "alternative", "grunge",
            "industrial", "nu metal">>,
         themes |->
          <<"anger", "rage", "frustration", "aggression", "rebellion",
            "conflict", "hate", "violence", "destruction">>,
         positive_words |->
          <<>>,
         negative_words |->
          <<"hate", "kill", "die", "dead", "blood", "pain", "suffer">>]) @@
    ("Heartbreak" :>
        [title_keywords |->
          <<"heartbreak", "breakup", "lonely", "crying", "tears", "hurt",
            "broken", "goodbye", "leave", "alone", "sad", "pain", "miss",
            "lost">>,
         artist_keywords |->
          <<"adele", "taylor swift", "sam smith", "billie eilish",
            "lana del rey">>,
         genre_keywords |->
          <<"ballad", "soul", "r&b", "country", "blues", "folk", "acoustic",
            "indie", "pop">>,
         themes |->
          <<"heartbreak", "breakup", "loss", "sadness", "loneliness",
            "emotional pain", "rejection", "betrayal", "separation">>,
         positive_words |->
          <<>>,
         negative_words |->
          <<"cry", "tears", "hurt", "broken", "alone", "lonely", "sad",
            "pain">>]) @@
    ("Workout/Go Time" :>
        [title_keywords |->
          <<"energy", "pump", "power", "strength", "victory", "win",
            "champion", "go", "move", "run", "fast", "fire", "burn">>,
         artist_keywords |->
          <<"eminem", "kanye", "drake", "travis scott", "kendrick",
            "the weeknd">>,
         genre_keywords |->
          <<"hip hop", "rap", "edm", "electronic", "dance", "house",
            "techno", "trap", "pop", "rock">>,
         themes |->
          <<"motivation", "energy", "power", "strength", "determination",
            "victory", "success", "winning", "achievement">>,
         positive_words |->
          <<"go", "win", "power", "strength", "energy", "fire", "champion">>,
         negative_words |->
          <<>>]) @@
    ("Calming" :>
        [title_keywords |->
          <<"calm", "peace", "quiet", "soft", "gentle", "serene",
            "tranquil", "zen", "meditation", "breathe", "ocean", "rain">>,
         artist_keywords |->
          <<"enya", "yiruma", "ludovico einaudi", "max richter">>,
         genre_keywords |->
          <<"ambient", "new age", "classical", "jazz", "acoustic",
            "instrumental", "lounge", "chill">>,
         themes |->
          <<"peace", "calm", "relaxation", "tranquility", "serenity",
            "meditation", "mindfulness", "nature">>,
         positive_words |->
          <<"peace", "calm", "quiet", "soft", "gentle", "serene">>,
         negative_words |->
          <<>>]) @@
    ("In Love" :>
        [title_keywords |->
          <<"love", "romantic", "sweet", "tender", "heart", "together",
            "forever", "soulmate", "kiss", "hug", "adore", "cherish",
            "devotion">>,
         artist_keywords |->
          <<"ed sheeran", "bruno mars", "john legend", "alicia keys",
            "beyonce">>,
         genre_keywords |->
          <<"pop", "r&b", "soul", "jazz", "smooth", "ballad", "soft rock",
            "country">>,
         themes |->
          <<"love", "romance", "affection", "devotion", "passion",
            "togetherness", "soulmate", "wedding", "marriage">>,
         positive_words |->
          <<"love", "romantic", "sweet", "heart", "together", "forever">>,
         negative_words |->
          <<>>]) @@
    ("While Doing Homework" :>
        [title_keywords |->
          <<"instrumental", "study", "focus", "concentration", "background",
            "ambient", "lo-fi", "piano", "classical">>,
         artist_keywords |->
          <<"bach", "mozart", "beethoven", "chopin", "debussy">>,
         genre_keywords |->
          <<"instrumental", "classical", "ambient", "lo-fi", "jazz",
            "post-rock", "cinematic", "soundtrack", "piano">>,
         themes |->
          <<"focus", "concentration", "study", "productivity",
            "background music", "instrumental", "academic">>,
         positive_words |->
          <<"focus", "study", "concentration">>,
         negative_words |->
          <<>>])

\* the characters \w matches among those of the tracks of the model
WordChars == LowerAlphabet \o UpperAlphabet \o Digits \o "_"

IsWordChar(c) == \E i \in 1..Len(WordChars) : SubSeq(WordChars, i, i) = c

\* the length of the longest prefix of s made of word characters
WordPrefix(s) ==
    CHOOSE n \in 0..Len(s) :
        /\ \A j \in 1..n : IsWordChar(SubSeq(s, j, j))
        /\ n = Len(s) \/ ~IsWordChar(SubSeq(s, n + 1, n + 1))

\* re.findall(r'\b\w+\b', s): the maximal runs of word characters of s
RECURSIVE WordRuns(_)
WordRuns(s) ==
    IF Len(s) = 0 THEN <<>>
    ELSE LET n == WordPrefix(s)
         IN  IF n = 0 THEN WordRuns(SubSeq(s, 2, Len(s)))
             ELSE <<SubSeq(s, 1, n)>> \o WordRuns(SubSeq(s, n + 1, Len(s)))

SmartTitleKeyword == 10
SmartArtistKeyword == 8
SmartGenreKeyword == 6
SmartTheme == 12
SmartPositiveWord == 3
SmartNegativeWord == 4
SmartHomeworkGenre == 8
SmartHomeworkPenalty == 5
SmartCalmingPenalty == 10
SmartAngryGenre == 5
SmartAngryPenalty == 8
SmartLoveTitle == 8
SmartLovePenalty == 10
SmartHeartbreakTitle == 10
SmartHeartbreakGenre == 5
SmartWorkoutGenre == 5
SmartWorkoutPenalty == 8
SmartThreshold == 5

\* the "Special patterns" of classify_song_smart for one mood
Smart_special(m, song_name, genre) ==
    IF m = "While Doing Homework"
    THEN (IF AnyIn(<<"instrumental", "classical", "ambient", "piano",
                     "orchestral">>, genre)
          THEN SmartHomeworkGenre ELSE 0)
       - (IF AnyIn(<<"love", "hate", "cry", "angry", "sad">>, song_name)
          THEN SmartHomeworkPenalty ELSE 0)
    ELSE IF m = "Calming"
    THEN 0 - (IF AnyIn(<<"rage", "fight", "kill", "angry", "scream">>,
                       song_name)
              THEN SmartCalmingPenalty ELSE 0)
    ELSE IF m = "Angry/Mad"
    THEN (IF AnyIn(<<"metal", "punk", "hardcore", "rock">>, genre)
          THEN SmartAngryGenre ELSE 0)
       - (IF AnyIn(<<"love", "calm", "peace", "gentle">>, song_name)
          THEN SmartAngryPenalty ELSE 0)
    ELSE IF m = "In Love"
    THEN (IF Contains("love", song_name) \/ Contains("heart", song_name)
          THEN SmartLoveTitle ELSE 0)
       - (IF AnyIn(<<"hate", "breakup", "lonely", "sad">>, song_name)
          THEN SmartLovePenalty ELSE 0)
    ELSE IF m = "Heartbreak"
    THEN (IF AnyIn(<<"breakup", "heartbreak", "goodbye", "alone",
                     "lonely">>, song_name)
          THEN SmartHeartbreakTitle ELSE 0)
       + (IF AnyIn(<<"ballad", "soul", "r&b", "country", "blues">>, genre)
          THEN SmartHeartbreakGenre ELSE 0)
    ELSE IF m = "Workout/Go Time"
    THEN (IF AnyIn(<<"hip hop", "rap", "edm", "electronic", "dance",
                     "rock">>, genre)
          THEN SmartWorkoutGenre ELSE 0)
       - (IF AnyIn(<<"slow", "calm", "peace", "quiet">>, song_name)
          THEN SmartWorkoutPenalty ELSE 0)
    ELSE 0

\* the score classify_song_smart computes for one mood
Smart_score(t, m) ==
    LET song_name == Lower(t.name)
        artist == Lower(t.artist)
        genre == Lower(t.genre)
        config == Smart_mood_categories[m]
        title_words == WordRuns(song_name)
    IN  SmartTitleKeyword * CountIn(config.title_keywords, song_name)
      + SmartArtistKeyword * CountIn(config.artist_keywords, artist)
      + SmartGenreKeyword * CountIn(config.genre_keywords, genre)
      + SmartTheme * CountIn(config.themes, song_name)
      + SmartPositiveWord * CountWords(title_words, config.positive_words)
      + (IF m \in {"Angry/Mad", "Heartbreak"}
         THEN SmartNegativeWord
                  * CountWords(title_words, config.negative_words)
         ELSE 0)
      + Smart_special(m, song_name, genre)

Smart_mood_scores(t) ==
    ScoreItems([i \in 1..Len(MoodOrder) |->
                   <<MoodOrder[i], Smart_score(t, MoodOrder[i])>>])

\* classify_song_smart without the test of best_score against 5
classify_song_smart_NoThreshold(t) ==
    LET mood_scores == Smart_mood_scores(t)
    IN  IF mood_scores = <<>> THEN "Calming"
        ELSE SortedDesc(mood_scores, 2)[1][1]

\* classify_song_smart: max(...) takes the first mood of the highest score
classify_song_smart(t) ==
    LET mood_scores == Smart_mood_scores(t)
    IN  IF mood_scores = <<>> THEN "Calming"
        ELSE LET best == SortedDesc(mood_scores, 2)[1]
             IN  IF best[2] >= SmartThreshold THEN best[1] ELSE "Calming"

SmartTargetSize == 40
SmartTopArtists == 10
SmartTopGenres == 5

\* the scan "for track in all_tracks" of the expansion of organize, from
\* position i on
RECURSIVE SmartSimilarScan(_, _, _, _, _, _, _)
SmartSimilarScan(corpus, i, tracks, added, needed, s_top_artists, s_top_genres) ==
    IF i > Len(corpus) THEN tracks
    ELSE LET t == corpus[i]
         IN  IF t.name \notin Range(tracks)
                /\ (t.artist \in s_top_artists \/ t.genre \in s_top_genres)
             THEN IF added + 1 >= needed THEN Append(tracks, t.name)
                  ELSE SmartSimilarScan(corpus, i + 1,
                           Append(tracks, t.name), added + 1, needed,
                           s_top_artists, s_top_genres)
             ELSE SmartSimilarScan(corpus, i + 1, tracks, added, needed,
                                   s_top_artists, s_top_genres)

\* one iteration of the loop "Ensuring each playlist has 40+ tracks" of
\* organize; tracks is list(set(mood_tracks.get(mood, []))) in the
\* iteration order of that set
Smart_expand(corpus, tracks) ==
    IF Len(tracks) < SmartTargetSize
    THEN LET existing_track_objs ==
                 SelectSeq(corpus, LAMBDA t : t.name \in Range(tracks))
             artists == [i \in 1..Len(existing_track_objs) |->
                            existing_track_objs[i].artist]
             genres == [i \in 1..Len(existing_track_objs) |->
                           existing_track_objs[i].genre]
             s_top_artists ==
                 TopSet(SelectSeq(artists, LAMBDA a : a # ""),
                        SmartTopArtists)
             s_top_genres ==
                 TopSet(SelectSeq(genres, LAMBDA g : g # ""), SmartTopGenres)
         IN  Take(SmartSimilarScan(corpus, 1, tracks, 0,
                                   SmartTargetSize - Len(tracks),
                                   s_top_artists, s_top_genres),
                  SmartTargetSize)
    ELSE Take(tracks, SmartTargetSize)

----------------------------------------------------------------------------
(* organize of WebResearchOrganizer, ResearchBasedOrganizer and
   SmartResearchOrganizer: classification and expansion *)

ResearchOrganizers == {"Web", "ResearchBased", "Smart"}

\* mood_tracks.get(mood, [])
WebBucket(buckets, m) == IF m \in DOMAIN buckets THEN buckets[m] ELSE <<>>

\* tracks of the libraries WebResearchOrganizer runs on: the Catalogue, a
\* track no signal occurs in, and two tracks whose names and artists join
\* to the same "name|artist" string
WebCatalogue ==
    Catalogue \cup { Track("Untitled", "", ""),
                     Track("no", "lyrics|x", ""),
                     Track("no|lyrics", "x", "") }

\* the tracks of the libraries the three organizers run on: in addition, a
\* track with a title keyword and no artist or genre, and a track whose
\* title is a negative word only, and a track whose genre holds two genre
\* terms of one mood
ResearchCatalogue ==
    WebCatalogue \cup { Track("Rage", "", ""), Track("Die", "", ""),
                        Track("Untitled", "", "Pop Soul") }

\* what the classifier of organizer org returns for the next track, as a
\* list of moods, and the cache it leaves
ClassifyWith(org, cache, t) ==
    IF org = "Web"
    THEN LET searched == web_search_song(cache, t.name, t.artist)
         IN  [moods |-> classify_song_with_research(t, searched.data),
              cache |-> searched.cache]
    ELSE IF org = "ResearchBased"
    THEN [moods |-> classify_song_by_research(t),
          cache |-> research_song(cache, t.name, t.artist).cache]
    ELSE [moods |-> <<classify_song_smart(t)>>, cache |-> cache]

\* a library of one track more than a playlist takes, all of one mood
WebBulkLibrary ==
    [i \in 1..(WebTargetSize + 1) |-> Track("Zen " \o Dec(i), "", "")]

ResearchInit ==
    /\ library \in SeqsUpTo(ResearchCatalogue, MaxLibrary)
                       \cup {WebBulkLibrary}
    /\ w_org \in ResearchOrganizers
    /\ playlists = <<>>
    /\ sink_log = <<>>
    /\ w_pc = "load"
    /\ w_all_tracks = <<>>
    /\ w_next = 1
    /\ song_research_cache = <<>>
    /\ w_moods = <<>>
    /\ w_mood_tracks = <<>>
    /\ w_mood = 1
    /\ final_playlists = <<>>
    /\ w_prev_playlists = <<>>
    /\ w_runs = 1
    /\ CallIdle
    /\ ConfigIdle
    /\ BatchIdle
    /\ o_pc = "idle"
    /\ o_all_tracks = <<>>
    /\ o_next = 1
    /\ mood_tracks = <<>>
    /\ o_mood = 1
    /\ expanded_playlists = <<>>
    /\ created = 0
    /\ mood = MoodOrder[1]
    /\ initial_tracks = <<>>
    /\ all_tracks = <<>>
    /\ target_size = 0
    /\ initial_names = {}
    /\ final_tracks = <<>>
    /\ pc = "idle"
    /\ passes = <<>>
    /\ result = <<>>
    /\ prev_result = <<>>
    /\ calls = 1
    /\ track = Track("", "", "")
    /\ classified = {}
    /\ moods_of = <<>>

\* all_tracks = self.get_all_tracks(); return when it is empty
ResearchLoad ==
    /\ w_pc = "load"
    /\ \E track_count \in {0, Len(library)} :
       \E batch_ok \in [1..((Len(library) + WebLoadBatchSize - 1)
                               \div WebLoadBatchSize) -> BOOLEAN] :
          LET loaded ==
                  WebResearch_get_all_tracks(library, track_count, batch_ok)
          IN  /\ w_all_tracks' = loaded
              /\ w_pc' = IF loaded = <<>> THEN "done" ELSE "classify"
    /\ UNCHANGED <<w_org, w_next, song_research_cache, w_moods, w_mood_tracks,
                   w_mood, final_playlists, w_prev_playlists, w_runs,
                   callVars, configVars, sinkVars, organizeVars, batchVars, expandVars,
                   classifyVars>>

\* one iteration of "for i, track in enumerate(all_tracks, 1)"
ResearchClassify ==
    /\ w_pc = "classify"
    /\ LET t == w_all_tracks[w_next]
           classified_as == ClassifyWith(w_org, song_research_cache, t)
           moods == classified_as.moods
       IN  /\ song_research_cache' = classified_as.cache
           /\ w_moods' = Append(w_moods, moods)
           /\ w_mood_tracks' =
                 [m \in DOMAIN w_mood_tracks \cup Range(moods) |->
                     IF m \in Range(moods)
                     THEN Append(WebBucket(w_mood_tracks, m), t.name)
                     ELSE w_mood_tracks[m]]
    /\ w_next' = w_next + 1
    /\ w_pc' = IF w_next = Len(w_all_tracks) THEN "expand" ELSE "classify"
    /\ UNCHANGED <<w_org, w_all_tracks, w_mood, final_playlists,
                   w_prev_playlists, w_runs, callVars, configVars, sinkVars, organizeVars, batchVars,
                   expandVars, classifyVars>>

\* one iteration of "for mood in self.mood_categories.keys()" of the
\* expansion
ResearchExpand ==
    /\ w_pc = "expand"
    /\ LET m == MoodOrder[w_mood]
           bucket == WebBucket(w_mood_tracks, m)
       IN  IF w_org = "ResearchBased"
           THEN LET tracks == ResearchBased_expand(w_all_tracks, bucket)
                IN  /\ \E ordered \in SetOrders(tracks) :
                          final_playlists' =
                              final_playlists @@
                              (m :> Take(ordered, ResearchBasedTargetSize))
                    \* tracks is the list object of mood_tracks when the
                    \* mood has one
                    /\ w_mood_tracks' =
                          IF m \in DOMAIN w_mood_tracks
                          THEN [w_mood_tracks EXCEPT ![m] = tracks]
                          ELSE w_mood_tracks
           ELSE /\ \E tracks \in SetOrders(bucket) :
                      final_playlists' =
                          final_playlists @@
                          (m :> IF w_org = "Web"
                                THEN WebResearch_expand(w_all_tracks, tracks)
                                ELSE Smart_expand(w_all_tracks, tracks))
                /\ UNCHANGED w_mood_tracks
    /\ w_mood' = w_mood + 1
    /\ w_pc' = IF w_mood = Len(MoodOrder) THEN "done" ELSE "expand"
    /\ UNCHANGED <<w_org, w_all_tracks, w_next, song_research_cache, w_moods,
                   w_prev_playlists, w_runs, callVars, configVars,
                   sinkVars, organizeVars, batchVars, expandVars,
                   classifyVars>>

\* the classification and the expansion run again on the same all_tracks,
\* by a new process
ResearchAgain ==
    /\ w_pc = "done"
    /\ w_all_tracks # <<>>
    /\ w_runs < MaxCalls
    /\ w_runs' = w_runs + 1
    /\ w_prev_playlists' = final_playlists
    /\ w_pc' = "classify"
    /\ w_next' = 1
    /\ song_research_cache' = <<>>
    /\ w_moods' = <<>>
    /\ w_mood_tracks' = <<>>
    /\ w_mood' = 1
    /\ final_playlists' = <<>>
    /\ UNCHANGED <<w_org, w_all_tracks, callVars, configVars, sinkVars,
                   organizeVars, batchVars, expandVars, classifyVars>>

ResearchNext ==
    \/ ResearchLoad
    \/ ResearchClassify
    \/ ResearchExpand
    \/ ResearchAgain

ResearchSpec == ResearchInit /\ [][ResearchNext]_vars

----------------------------------------------------------------------------
(* WebResearchFinalOrganizer: construction, then research_song_mood *)

\* the criteria of a mood with every list of rules empty
NoRules ==
    [genres |-> <<>>, name_keywords |-> <<>>, artist_keywords |-> <<>>,
     exclude_genres |-> <<>>]

\* the literals __init__ may hold: the one of the source, and that literal
\* with the lists of one mood emptied or with an empty dict for one mood
ConfigLiterals ==
    {Final_mood_categories}
    \cup {[Final_mood_categories EXCEPT ![m] = NoRules] :
             m \in {"Angry/Mad", "Calming"}}
    \cup {[Final_mood_categories EXCEPT ![m] = <<>>] :
             m \in {"Angry/Mad", "Calming"}}

\* whether the criteria of a mood hold a signal rule
HasRules(criteria) == \E f \in DOMAIN criteria : Len(criteria[f]) > 0

ConfigTracks == Catalogue \cup {Track("Untitled", "", "")}

ConfigInit ==
    /\ c_literal \in ConfigLiterals
    /\ c_pc = "new"
    /\ c_categories = <<>>
    /\ c_track = Track("", "", "")
    /\ c_i = 1
    /\ c_scores = <<>>
    /\ c_visited = {}
    /\ CallIdle
    /\ ResearchIdle
    /\ mood = "Angry/Mad"
    /\ initial_tracks = <<>>
    /\ all_tracks = <<>>
    /\ target_size = 0
    /\ initial_names = {}
    /\ final_tracks = <<>>
    /\ pc = "idle"
    /\ passes = <<>>
    /\ result = <<>>
    /\ prev_result = <<>>
    /\ calls = 1
    /\ track = Track("", "", "")
    /\ classified = {}
    /\ moods_of = <<>>
    /\ library = <<>>
    /\ playlists = <<>>
    /\ sink_log = <<>>
    /\ o_pc = "idle"
    /\ o_all_tracks = <<>>
    /\ o_next = 1
    /\ mood_tracks = <<>>
    /\ o_mood = 1
    /\ expanded_playlists = <<>>
    /\ created = 0
    /\ BatchIdle

\* __init__: self.mood_categories = {...}; self.known_songs = {}
ConfigConstruct ==
    /\ c_pc = "new"
    /\ c_categories' = c_literal
    /\ c_pc' = "ready"
    /\ UNCHANGED <<c_literal, c_track, c_i, c_scores, c_visited, callVars,
                   researchVars, sinkVars, organizeVars, batchVars,
                   expandVars, classifyVars>>

\* research_song_mood is called on a track
ConfigResearch ==
    /\ c_pc = "ready"
    /\ c_track' \in ConfigTracks
    /\ c_i' = 1
    /\ c_scores' = <<>>
    /\ c_pc' = "scoring"
    /\ UNCHANGED <<c_literal, c_categories, c_visited, callVars,
                   researchVars, sinkVars, organizeVars, batchVars,
                   expandVars, classifyVars>>

\* one iteration of "for mood, criteria in self.mood_categories.items()";
\* criteria['genres'] of a dict without that key raises KeyError
ConfigScoreMood ==
    /\ c_pc = "scoring"
    /\ LET m == MoodOrder[c_i]
           criteria == c_categories[m]
           exclude_genres == IF "exclude_genres" \in DOMAIN criteria
                             THEN criteria.exclude_genres ELSE <<>>
           excluded == AnyIn(exclude_genres, Lower(c_track.genre))
           raises == /\ ~excluded
                     /\ ~({"genres", "name_keywords", "artist_keywords"}
                             \subseteq DOMAIN criteria)
           score == IF excluded THEN 0
                    ELSE Final_score_of(criteria, c_track, m)
       IN  /\ c_visited' = c_visited \cup {m}
           /\ c_scores' = IF ~raises /\ score > 0
                          THEN Append(c_scores, <<m, score>>)
                          ELSE c_scores
           /\ c_pc' = IF raises THEN "raised"
                      ELSE IF c_i = Len(MoodOrder) THEN "done"
                      ELSE "scoring"
    /\ c_i' = c_i + 1
    /\ UNCHANGED <<c_literal, c_categories, c_track, callVars, researchVars,
                   sinkVars, organizeVars, batchVars, expandVars,
                   classifyVars>>

ConfigNext ==
    \/ ConfigConstruct
    \/ ConfigResearch
    \/ ConfigScoreMood

ConfigSpec == ConfigInit /\ [][ConfigNext]_vars

----------------------------------------------------------------------------
(* Properties of expand_playlist, checked under Spec *)

BucketNames == NamesOf(initial_tracks)

\* the corpus positions find_similar_tracks can select for the bucket:
\* tracks outside the bucket with a positive score
SimilarCandidates ==
    IF initial_tracks = <<>> THEN {}
    ELSE LET artists == top_artists(initial_tracks)
             genres == top_genres(initial_tracks)
         IN  {i \in 1..Len(all_tracks) :
                 /\ all_tracks[i].name \notin BucketNames
                 /\ SimilarScore(all_tracks[i], artists, genres) > 0}

\* the corpus positions find_correlated_tracks can select for the mood
KeywordCandidates ==
    {i \in 1..Len(all_tracks) :
        /\ all_tracks[i].name \notin BucketNames
        /\ MatchesKeyword(mood_keywords[mood], all_tracks[i])}

AllowedPasses ==
    { <<>>, <<"similar">>, <<"correlated">>, <<"similar", "correlated">>,
      <<"correlated", "similar">>, <<"similar", "similar">>,
      <<"similar", "correlated", "similar">> }

\* C1: the list returned by expand_playlist contains no name twice
C1_NoDuplicateNames == pc = "done" => NoDup(result)

\* C2: expand_playlist never returns more than target_size names
C2_AtMostTargetSize == pc = "done" => Len(result) <= target_size

\* C2 witness: all three phases ran, the cap of the first phase applied and
\* the result has exactly target_size names
C2_Witness ==
    /\ pc = "done"
    /\ passes = <<"similar", "correlated", "similar">>
    /\ target_size - Cardinality(BucketNames) > SimilarCap
    /\ Cardinality(SimilarCandidates) > target_size
    /\ Len(result) = target_size

\* C3: every returned name is a name of the bucket or of a corpus item
C3_NamesFromBucketOrCorpus ==
    pc = "done" => Range(result) \subseteq BucketNames \cup NamesOf(all_tracks)

\* C3 witness: a result with a bucket name, a name added by the similarity
\* phase and a name added by the keyword phase
C3_Witness ==
    /\ pc = "done"
    /\ passes = <<"similar", "correlated">>
    /\ Range(result) \cap BucketNames # {}
    /\ \E i \in SimilarCandidates : all_tracks[i].name \in Range(result)
    /\ \E i \in KeywordCandidates \ SimilarCandidates :
          all_tracks[i].name \in Range(result)

\* C4: a bucket of fewer than target_size distinct names is contained in the
\* result; a bucket of target_size or more names is cut to target_size of
\* its names
C4_BucketKept ==
    pc = "done" =>
        IF Cardinality(BucketNames) < target_size
        THEN BucketNames \subseteq Range(result)
        ELSE /\ Len(result) = target_size
             /\ Range(result) \subseteq BucketNames

\* C4 witness: a bucket smaller than target_size that expansion enlarged
C4_Witness ==
    /\ pc = "done"
    /\ Cardinality(BucketNames) >= 2
    /\ Cardinality(BucketNames) < target_size
    /\ Len(result) > Cardinality(BucketNames)

\* C5: a second call with the same mood, bucket, corpus and target_size
\* returns the same names in the same order as the first
C5_SameResultOnRepeat == (pc = "done" /\ calls >= 2) => result = prev_result

\* the order of the program points of expand_playlist
PcRank ==
    ("call" :> 1) @@ ("similar" :> 2) @@ ("correlated" :> 3) @@
    ("more" :> 4) @@ ("done" :> 5)

C7_ReachesTargetSize ==
    (/\ pc = "done"
     /\ initial_tracks # <<>>
     /\ Cardinality(BucketNames) < target_size
     /\ Cardinality(NamesOf(all_tracks)) = Len(all_tracks)
     /\ Cardinality(SimilarCandidates)
          >= target_size - Cardinality(BucketNames))
    => Len(result) = target_size

\* C7 witness: more names are missing than the first phase may add, the
\* corpus has enough similar tracks, and the second similarity pass ran
C7_Witness ==
    /\ pc = "done"
    /\ initial_tracks # <<>>
    /\ target_size - Cardinality(BucketNames) > SimilarCap
    /\ Cardinality(NamesOf(all_tracks)) = Len(all_tracks)
    /\ Cardinality(SimilarCandidates)
         >= target_size - Cardinality(BucketNames)
    /\ passes = <<"similar", "correlated", "similar">>
    /\ Len(result) = target_size

\* the lower-cased non-empty values of a field over the bucket, as pairs
\* <<position in the bucket, value>>
BucketValues(field) ==
    {<<i, Lower(initial_tracks[i][field])>> :
        i \in {j \in 1..Len(initial_tracks) : initial_tracks[j][field] # ""}}

\* the n most frequent values of a set of <<position, value>> pairs: those
\* with fewer than n values before them, a value being before another when
\* it occurs more often, or as often and first occurs earlier
MostFrequent(values, n) ==
    LET stats == {<<v, Cardinality({p \in values : p[2] = v}),
                    CHOOSE i \in {p[1] : p \in values} :
                        /\ <<i, v>> \in values
                        /\ \A p \in values : p[2] = v => i <= p[1]>> :
                     v \in {p[2] : p \in values}}
    IN  {s[1] : s \in {t \in stats :
            Cardinality({u \in stats :
                \/ u[2] > t[2]
                \/ u[2] = t[2] /\ u[3] < t[3]}) < n}}

\* the corpus items outside the bucket to which the first phase gives a
\* positive score, as pairs <<position in the corpus, score>>: 2 for an
\* artist among the 10 most frequent of the bucket, 1 for a genre among the
\* 5 most frequent
PhaseOneScored ==
    LET artists == MostFrequent(BucketValues("artist"), 10)
        genres == MostFrequent(BucketValues("genre"), 5)
        scored == {<<i, (IF Lower(all_tracks[i].artist) \in artists
                         THEN 2 ELSE 0)
                      + (IF Lower(all_tracks[i].genre) \in genres
                         THEN 1 ELSE 0)>> :
                      i \in {j \in 1..Len(all_tracks) :
                                all_tracks[j].name \notin BucketNames}}
    IN  {p \in scored : p[2] > 0}

\* C23: after the first phase of expand_playlist the list is the bucket
\* followed by the names of the first min(needed, 30) corpus items outside
\* the bucket with a positive score, by descending score and, at equal
\* score, in corpus order
C23_SimilarPhaseRanksByScore ==
    (pc = "correlated" /\ initial_tracks # <<>>) =>
        LET candidates == {p : p \in PhaseOneScored}
            bucket == Cardinality(BucketNames)
            taken == Min(Min(target_size - bucket, 30),
                         Cardinality(candidates))
        IN  /\ Len(final_tracks) = bucket + taken
            /\ \A p \in candidates :
                   LET rank == 1 + Cardinality({q \in candidates :
                                       \/ q[2] > p[2]
                                       \/ q[2] = p[2] /\ q[1] < p[1]})
                   IN  rank <= taken
                       => final_tracks[bucket + rank] = all_tracks[p[1]].name

\* C23 witness: more than 30 names are missing, the corpus has more than 30
\* candidates, and a candidate of score 3 that stands after one of score 1
\* in the corpus was added
C23_Witness ==
    /\ pc = "correlated"
    /\ passes = <<"similar">>
    /\ target_size - Cardinality(BucketNames) > 30
    /\ Len(final_tracks) = Cardinality(BucketNames) + 30
    /\ \E p, q \in PhaseOneScored :
          /\ p[1] < q[1]
          /\ p[2] = 1
          /\ q[2] = 3
          /\ all_tracks[q[1]].name \in Range(final_tracks)

\* the corpus positions of the items that are neither in the bucket nor
\* added by the first phase and in whose genre, name and artist a keyword
\* of the mood occurs
KeywordMatches ==
    {i \in {j \in 1..Len(all_tracks) :
                all_tracks[j].name \notin initial_names} :
        \E k \in Range(mood_keywords[mood]) :
            Contains(k, Combined(all_tracks[i]))}

\* C24: the keyword-correlation phase of expand_playlist appends to the
\* list the names of the first min(10, target_size - current length) items
\* of KeywordMatches, in corpus order, and nothing else
C24_CorrelatedPhaseTakesFirstMatches ==
    [][pc = "correlated" =>
         LET before == Len(final_tracks)
             matches == {i : i \in KeywordMatches}
             taken == Min(Min(10, target_size - before),
                          Cardinality(matches))
         IN  /\ Len(final_tracks') = before + taken
             /\ SubSeq(final_tracks', 1, before) = final_tracks
             /\ \A i \in matches :
                    LET rank == Cardinality({j \in matches : j <= i})
                    IN  rank <= taken
                        => final_tracks'[before + rank] = all_tracks[i].name
    ]_vars

\* C24 witness: the phase has run after the first phase, the corpus holds
\* more than 10 keyword matches, the first of them was added and the
\* eleventh was not
C24_Witness ==
    /\ pc = "more"
    /\ passes = <<"similar", "correlated">>
    /\ LET matches == {i : i \in KeywordMatches}
       IN  /\ Cardinality(matches) > 10
           /\ \E i, j \in matches :
                  /\ Cardinality({k \in matches : k <= i}) = 1
                  /\ Cardinality({k \in matches : k <= j}) = 11
                  /\ all_tracks[i].name \in Range(final_tracks)
                  /\ all_tracks[j].name \notin Range(final_tracks)

\* the enlarged bucket: the tracks of the bucket, then the corpus items
\* whose names the first two phases added
EnlargedBucket ==
    initial_tracks \o
    SelectSeq(all_tracks,
              LAMBDA t : t.name \in Range(final_tracks) \ BucketNames)

\* the lower-cased non-empty values of a field over the enlarged bucket, as
\* pairs <<position, value>>
EnlargedValues(field) ==
    {<<i, Lower(EnlargedBucket[i][field])>> :
        i \in {j \in 1..Len(EnlargedBucket) : EnlargedBucket[j][field] # ""}}

\* the corpus positions of the items outside the list whose artist is among
\* the 10 most frequent artists, or whose genre is among the 5 most
\* frequent genres, of the enlarged bucket
EnlargedCandidates ==
    LET artists == MostFrequent(EnlargedValues("artist"), 10)
        genres == MostFrequent(EnlargedValues("genre"), 5)
    IN  {i \in {j \in 1..Len(all_tracks) :
                   all_tracks[j].name \notin
                       BucketNames \cup Range(final_tracks)} :
            \/ Lower(all_tracks[i].artist) \in artists
            \/ Lower(all_tracks[i].genre) \in genres}

\* C25: when the list is shorter than target_size after the first two
\* phases, the third phase of expand_playlist adds the missing names, or as
\* many as there are, from the corpus items similar to the enlarged bucket
C25_ThirdPhaseSeedsFromEnlargedBucket ==
    [][(pc = "more" /\ Len(final_tracks) < target_size) =>
           Len(final_tracks') =
               Len(final_tracks)
               + Min(target_size - Len(final_tracks),
                     Cardinality(EnlargedCandidates))
    ]_vars

----------------------------------------------------------------------------
(* Properties of the classify_track selectors, checked under ClassifySpec *)

\* the highest score among <<mood, score>> items (0 when there is none)
TopOf(items) ==
    IF items = <<>> THEN 0
    ELSE CHOOSE s \in {items[i][2] : i \in 1..Len(items)} :
             \A i \in 1..Len(items) : items[i][2] <= s

\* the score of mood m in items (0 when it has none)
ScoreIn(items, m) ==
    IF \E i \in 1..Len(items) : items[i][1] = m
    THEN items[CHOOSE i \in 1..Len(items) : items[i][1] = m][2]
    ELSE 0

\* the moods at the highest score, in the order mood_categories declares
TiedAtTop(items) ==
    SelectSeq(MoodOrder, LAMBDA m :
        ScoreIn(items, m) > 0 /\ ScoreIn(items, m) = TopOf(items))

\* the second highest score in items (0 when there is no second item)
RunnerUp(items) ==
    IF Len(items) < 2 THEN 0
    ELSE IF Len(TiedAtTop(items)) >= 2 THEN TopOf(items)
    ELSE TopOf(SelectSeq(items, LAMBDA item : item[2] # TopOf(items)))

\* C8: ProperlyResearchedOrganizer.classify_track returns at most 1 mood,
\* and each returned mood scores at least 10 and at least half the top score
C8_ProperlyCapFloorRatio ==
    "Properly" \in classified =>
        \A items \in {Properly_analyze_song_mood(track)} :
            /\ Len(moods_of["Properly"]) <= 1
            /\ \A m \in Range(moods_of["Properly"]) :
                  /\ ScoreIn(items, m) >= 10
                  /\ 2 * ScoreIn(items, m) >= TopOf(items)

\* C8 witness: two moods clear the floor and the ratio, one is returned
C8_Witness ==
    /\ "Properly" \in classified
    /\ Len(moods_of["Properly"]) = 1
    /\ \E items \in {Properly_analyze_song_mood(track)} :
          Cardinality({m \in Range(MoodOrder) :
              /\ ScoreIn(items, m) >= 10
              /\ 2 * ScoreIn(items, m) >= TopOf(items)}) >= 2

\* C9: moods that tie at the top score are admitted in declaration order:
\* the first declared by ProperlyResearchedOrganizer (top score >= 10), the
\* first two declared by WebResearchedOrganizer
C9_TiesInDeclarationOrder ==
    /\ "Properly" \in classified =>
          \A items \in {Properly_analyze_song_mood(track)} :
              (Len(TiedAtTop(items)) >= 2 /\ TopOf(items) >= 10)
              => moods_of["Properly"] = <<TiedAtTop(items)[1]>>
    /\ "WebResearched" \in classified =>
          \A items \in {WebResearched_mood_scores(track)} :
              Len(TiedAtTop(items)) >= 2
              => moods_of["WebResearched"] = Take(TiedAtTop(items), 2)

\* C9 witness: three moods tie at the top in both organizers
C9_Witness ==
    /\ {"Properly", "WebResearched"} \subseteq classified
    /\ \E items \in {Properly_analyze_song_mood(track)} :
          Len(TiedAtTop(items)) >= 3 /\ TopOf(items) >= 10
    /\ \E items \in {WebResearched_mood_scores(track)} :
          Len(TiedAtTop(items)) >= 3

C11_ExcludedMoodNeverReturned ==
    "Final" \in classified =>
        \A items \in {Final_research_song_mood(track)} :
            \A m \in Range(MoodOrder) :
                Final_excluded(Lower(track.genre), m)
                => /\ ScoreIn(items, m) = 0
                   /\ \A i \in 1..Len(items) : items[i][1] # m
                   /\ m \notin Range(moods_of["Final"])

\* C11 witness: the genre, name and artist signals of an excluded mood add
\* up to 20 or more and to 5 more than the score of every other mood, and
\* classify_track returns another mood
C11_Witness ==
    /\ "Final" \in classified
    /\ moods_of["Final"] # <<>>
    /\ \E items \in {Final_research_song_mood(track)} :
          \E m \in Range(MoodOrder) :
              /\ Final_excluded(Lower(track.genre), m)
              /\ Final_score(track, m) >= FinalFloor
              /\ Final_score(track, m) >= TopOf(items) + FinalMargin

\* C12: a track whose name, artist and genre are empty has no score in
\* analyze_song_mood and research_song_mood, and classify_track of
\* ProperlyResearchedOrganizer and of WebResearchFinalOrganizer return the
\* empty list for it
C12_EmptyTrackUnclassified ==
    track = Track("", "", "") =>
        /\ "Properly" \in classified =>
              /\ Properly_analyze_song_mood(track) = <<>>
              /\ moods_of["Properly"] = <<>>
        /\ "Final" \in classified =>
              /\ Final_research_song_mood(track) = <<>>
              /\ moods_of["Final"] = <<>>

\* C12 witness: both organizers have classified the empty track
C12_Witness ==
    /\ track = Track("", "", "")
    /\ {"Properly", "Final"} \subseteq classified
    /\ \A m \in Range(MoodOrder) :
          Properly_score(track, m) = 0 /\ Final_score(track, m) = 0

\* C22: classify_track_researched of ResearchedPlaylistOrganizer returns at
\* most 2 moods for any track
C22_ResearchedAtMostTwo ==
    "Researched" \in classified => Len(moods_of["Researched"]) <= 2

----------------------------------------------------------------------------
(* Properties of ExpandedPlaylistOrganizer.organize, under OrganizeSpec *)

\* the tracks of the loaded library that classify_track puts into mood m
BucketOf(m) ==
    SelectSeq(o_all_tracks,
              LAMBDA t : m \in Range(Expanded_classify_track(t)))

\* the moods whose expanded list is not empty, in the order of the loops
NonEmptyMoods ==
    SelectSeq(MoodOrder, LAMBDA m : expanded_playlists[m] # <<>>)

\* C13: while a call of expand_playlist is under way in organize, every
\* track of the loaded library has been classified, the corpus argument is
\* the whole loaded library and the bucket argument holds every track
\* classified into the mood
C13_ExpandAfterClassification ==
    (o_pc # "idle" /\ pc # "idle") =>
        /\ o_next = Len(o_all_tracks) + 1
        /\ all_tracks = o_all_tracks
        /\ initial_tracks = BucketOf(mood)
        /\ \A m \in Range(MoodOrder) : mood_tracks[m] = BucketOf(m)

\* C13 witness: an expansion other than the first begins, on a library of
\* two tracks one of which is in the bucket
C13_Witness ==
    /\ o_pc = "expanding"
    /\ pc = "call"
    /\ o_mood > 1
    /\ Len(all_tracks) = 2
    /\ Len(initial_tracks) = 1

\* C15: organize never calls create_playlist with an empty list, a mood
\* whose final list is empty has no call and no playlist when organize is
\* done, and create_playlist on an empty list runs no script, leaves the
\* playlists as they are and returns False
C15_EmptyCategorySkipped ==
    o_pc # "idle" =>
        /\ \A i \in 1..Len(sink_log) : sink_log[i].track_names # <<>>
        /\ o_pc = "done" =>
              \A m \in Range(MoodOrder) :
                  expanded_playlists[m] = <<>> =>
                      /\ \A i \in 1..Len(sink_log) : sink_log[i].name # m
                      /\ m \notin DOMAIN playlists
        /\ \A m \in Range(MoodOrder) : \A env \in SinkEnvs(<<>>) :
              create_playlist(playlists, library, m, <<>>, env)
                  = [store |-> playlists, ret |-> FALSE, scripts |-> 0]

\* C15 witness: organize is done, it has written two playlists, and the
\* moods of empty final lists before, between and after them were skipped
C15_Witness ==
    /\ o_pc = "done"
    /\ Len(sink_log) = 2
    /\ sink_log[1].ret
    /\ sink_log[2].ret
    /\ expanded_playlists[MoodOrder[1]] = <<>>
    /\ expanded_playlists[MoodOrder[4]] = <<>>
    /\ expanded_playlists[MoodOrder[Len(MoodOrder)]] = <<>>

\* C16: when organize is done, create_playlist has been called once for
\* each mood of a non-empty final list, in the order of MoodOrder and with
\* that list, whatever the calls returned; and created is always the number
\* of calls that returned True
C16_EveryCategoryWrittenOnce ==
    o_pc # "idle" =>
        /\ created = Cardinality({i \in 1..Len(sink_log) : sink_log[i].ret})
        /\ (o_pc = "done" /\ o_all_tracks # <<>>) =>
              /\ [i \in 1..Len(sink_log) |-> sink_log[i].name]
                    = NonEmptyMoods
              /\ \A i \in 1..Len(sink_log) :
                    sink_log[i].track_names
                        = expanded_playlists[sink_log[i].name]

\* C16 witness: the first write failed, the two after it were made, one
\* of them failed as well
C16_Witness ==
    /\ o_pc = "done"
    /\ Len(sink_log) = 3
    /\ ~sink_log[1].ret
    /\ sink_log[2].ret
    /\ ~sink_log[3].ret
    /\ created = 1

\* C28: in organize the phase "Find 10 correlated tracks" of expand_playlist
\* leaves final_tracks as it found it, and once the expansion loop has
\* passed a mood that classify_track gave no track, its expanded playlist
\* is empty and no create_playlist call is made for it
C28_CorrelatedPhaseAddsNothing ==
    /\ [][(o_pc = "expanding" /\ pc = "correlated")
             => final_tracks' = final_tracks]_vars
    /\ [](o_pc \in {"write", "done"} =>
             \A m \in Range(MoodOrder) :
                 mood_tracks[m] = <<>> =>
                     /\ expanded_playlists[m] = <<>>
                     /\ \A i \in 1..Len(sink_log) : sink_log[i].name # m)

\* C28 witness: organize is done on a library in which one mood got a
\* track and another got none; the expansion of the first ran the
\* correlated phase on a list shorter than the target, the playlist of the
\* first was written
C28_Witness ==
    /\ o_pc = "done"
    /\ passes = <<"correlated", "similar">>
    /\ \E m1, m2 \in Range(MoodOrder) :
          /\ mood_tracks[m1] # <<>>
          /\ \E i \in 1..Len(o_all_tracks) :
                 MatchesKeyword(mood_keywords[m1], o_all_tracks[i])
          /\ Len(expanded_playlists[m1]) < TargetSize
          /\ \E i \in 1..Len(sink_log) : sink_log[i].name = m1
          /\ mood_tracks[m2] = <<>>

----------------------------------------------------------------------------
(* Properties of the organize of AdvancedAppleMusicOrganizer and of        *)
(* CustomPlaylistOrganizer, under BatchSpec                                *)

\* C14: no library fetch call completes after a track has been classified,
\* and no track is classified after a playlist has been written
C14_CollaboratorCallsNotInterleaved ==
    [][/\ n_fetch' > n_fetch => n_classified = 0
       /\ n_classified' > n_classified => b_writes = <<>>]_vars

\* C17: in AdvancedAppleMusicOrganizer.organize a mood is marked as written
\* only if every sink write issued for it returned a success result
C17_FailedWriteReported ==
    b_org = "Advanced" =>
        \A m \in DOMAIN b_marks :
            b_marks[m] = "ok" =>
                \A i \in 1..Len(b_writes) :
                    b_writes[i].mood = m => b_writes[i].ret

\* the create_playlist calls organize has made for mood m, in call order
WritesOf(m) == SelectSeq(b_writes, LAMBDA w : w.mood = m)

\* the track_names of the calls of writes, one after the other
RECURSIVE NamesWritten(_)
NamesWritten(writes) ==
    IF writes = <<>> THEN <<>>
    ELSE NamesWritten(SubSeq(writes, 1, Len(writes) - 1))
             \o writes[Len(writes)].track_names

\* the creation loop of organize has passed mood m
WriteLoopPassed(m) ==
    \/ b_pc = "done"
    \/ \E k \in 1..(b_k - 1) : CustomMoodOrder[k] = m

\* C29: once the creation loop of CustomPlaylistOrganizer.organize has
\* passed a mood whose bucket holds more than 200 names, the calls of
\* create_playlist for it are named mood, mood Part 2, mood Part 3, ..., their
\* lists put one after the other are the bucket, and each list holds at
\* least one name and at most 200
C29_LargeBucketSplitInOrder ==
    b_org = "Custom" =>
        \A m \in Range(CustomMoodOrder) :
            (WriteLoopPassed(m) /\ Len(b_mood_tracks[m]) > CustomSplitSize) =>
                LET writes == WritesOf(m)
                IN  /\ NamesWritten(writes) = b_mood_tracks[m]
                    /\ \A n \in 1..Len(writes) :
                          /\ writes[n].name =
                                IF n = 1 THEN m ELSE m \o " Part " \o Dec(n)
                          /\ Len(writes[n].track_names) \in 1..CustomSplitSize

\* C29 witness: organize is done on a library whose tracks all went to one
\* bucket of twice 200 names, written by two calls of 200 names each; the
\* first call failed
C29_Witness ==
    /\ b_org = "Custom"
    /\ b_pc = "done"
    /\ \E m \in Range(CustomMoodOrder) :
          /\ Len(b_mood_tracks[m]) = 2 * CustomSplitSize
          /\ Len(WritesOf(m)) = 2
          /\ ~WritesOf(m)[1].ret
          /\ WritesOf(m)[2].ret
          /\ WritesOf(m)[2].track_names[1] = b_mood_tracks[m][CustomSplitSize + 1]

----------------------------------------------------------------------------
(* Properties of create_playlist, under CallSpec *)

\* C18: after a call of create_playlist that returned True the playlist
\* holds only names of track_names, so nothing of a playlist of that name
\* from before the call, whatever the create script did; and a second call
\* with the same arguments that returns True leaves the playlists as the
\* first call left them
C18_WriteReplacesAndIsIdempotent ==
    (s_calls >= 1 /\ sink_log[Len(sink_log)].ret) =>
        /\ s_name \in DOMAIN playlists
        /\ Range(playlists[s_name]) \subseteq Range(s_track_names)
        /\ (s_calls >= 2 /\ sink_log[1].ret) => playlists = s_first

----------------------------------------------------------------------------
(* Properties of the organize functions of ResearchSpec *)

\* web_search_song followed by classify_song_with_research on a cache that
\* holds nothing
FreshMoods(t) ==
    classify_song_with_research(t, web_search_song(<<>>, t.name,
                                                   t.artist).data)

\* C19: the moods assigned to every track classified so far are those that
\* web_search_song followed by classify_song_with_research assigns to it on
\* an empty song_research_cache, whatever tracks were researched before it
C19_MoodsIndependentOfCache ==
    w_org = "Web" =>
        \A i \in 1..Len(w_moods) : w_moods[i] = FreshMoods(w_all_tracks[i])

\* C20: when the classification and the expansion have run a second time
\* on the same all_tracks, every mood has the same final playlist as after
\* the first run: the same names in the same order
C20_SamePlaylistsOnRepeat ==
    (w_pc = "done" /\ w_runs >= 2) => final_playlists = w_prev_playlists

\* the names the classification loop put in the bucket of mood m
ClassifiedNames(m) ==
    {w_all_tracks[i].name : i \in {j \in 1..Len(w_moods) :
                                      m \in Range(w_moods[j])}}

\* the names the expansion added to the final playlist of mood m
ExpansionAdded(m) == Range(final_playlists[m]) \ ClassifiedNames(m)

\* C26: in ResearchBasedOrganizer.organize every name the expansion added
\* to the playlist of a mood is the name of a library item with an artist
\* or a genre: an item whose artist and genre are both empty is never added
C26_ExpansionIgnoresEmptyFields ==
    w_org = "ResearchBased" =>
        \A m \in DOMAIN final_playlists :
            \A n \in ExpansionAdded(m) :
                \E i \in 1..Len(w_all_tracks) :
                    /\ w_all_tracks[i].name = n
                    /\ w_all_tracks[i].artist # "" \/ w_all_tracks[i].genre # ""

\* C27: for every track WebResearchOrganizer has classified, genre matching
\* adds the weight of one genre match at most to the score of a mood,
\* however many genre terms of the mood occur in the genre of the track
C27_GenreContributesOnce ==
    w_org = "Web" =>
        \A i \in 1..Len(w_moods) :
            \A m \in Range(MoodOrder) :
                WebResearch_genre_score(w_all_tracks[i], m) <= WebGenreMatch

\* the number of names in the buckets of the first j moods
RECURSIVE BucketSizes(_)
BucketSizes(j) ==
    IF j = 0 THEN 0
    ELSE BucketSizes(j - 1) + Len(WebBucket(w_mood_tracks, MoodOrder[j]))

\* the positions of the classified tracks that were given mood m only
GivenOnly(m) == {i \in 1..Len(w_moods) : w_moods[i] = <<m>>}

\* C30: in SmartResearchOrganizer.organize, when k tracks have been
\* classified the sizes of the buckets sum to k, every classified track was
\* given one mood and the bucket of a mood holds, in library order, the
\* names of the tracks given that mood; a track no mood of which scores 5
\* or more was given 'Calming'
C30_OneBucketPerItem ==
    w_org = "Smart" =>
        /\ Len(w_moods) = IF w_pc = "classify" THEN w_next - 1
                          ELSE Len(w_all_tracks)
        /\ BucketSizes(Len(MoodOrder)) = Len(w_moods)
        /\ \A i \in 1..Len(w_moods) :
              /\ \E m \in Range(MoodOrder) : w_moods[i] = <<m>>
              /\ (\A m \in Range(MoodOrder) :
                      Smart_score(w_all_tracks[i], m) < SmartThreshold)
                    => w_moods[i] = <<"Calming">>
        /\ \A m \in Range(MoodOrder) :
              LET bucket == WebBucket(w_mood_tracks, m)
              IN  /\ Len(bucket) = Cardinality(GivenOnly(m))
                  /\ \A i \in GivenOnly(m) :
                        bucket[Cardinality({j \in GivenOnly(m) : j <= i})]
                            = w_all_tracks[i].name

\* C30 witness: two tracks have been classified; a mood scores above 0 and
\* below 5 for one of them and no mood scores more, and it is in 'Calming';
\* the other is in another bucket
C30_Witness ==
    /\ w_org = "Smart"
    /\ w_pc = "expand"
    /\ Len(w_moods) = 2
    /\ \E i, j \in 1..2 :
          /\ \E m \in Range(MoodOrder) :
                 Smart_score(w_all_tracks[i], m) \in 1..(SmartThreshold - 1)
          /\ \A m \in Range(MoodOrder) :
                 Smart_score(w_all_tracks[i], m) < SmartThreshold
          /\ w_all_tracks[i].name \in Range(WebBucket(w_mood_tracks, "Calming"))
          /\ w_moods[j] # <<"Calming">>
          /\ w_all_tracks[j].name
                 \in Range(WebBucket(w_mood_tracks, w_moods[j][1]))

----------------------------------------------------------------------------
(* Properties of WebResearchFinalOrganizer, under ConfigSpec *)

====
